---------------------------- MODULE Spec2Model ----------------------------
(***************************************************************************)
(* Collection and topic-tagging pipeline of trendr (src-tauri/src).        *)
(*                                                                         *)
(* Every tauri command invocation is a task of the multi-threaded async    *)
(* runtime.  A task's atomic steps are the critical sections of the two    *)
(* process-wide mutexes (COLLECTION_STATE in commands.rs, DATABASE in      *)
(* database.rs: one with_db call is one step) and its network awaits.      *)
(* Local computation between two such steps is folded into the step that   *)
(* precedes it.                                                            *)
(***************************************************************************)
EXTENDS Integers, Sequences, FiniteSets, TLC

(***************************************************************************)
(* Bounds of the model.                                                    *)
(***************************************************************************)
\* number of entry-point invocations (tasks) in one behaviour
MaxRuns == 2
\* longest configured list of search targets (subreddits / queries)
MaxTargets == 2
\* number of raw items the platforms hand out over one behaviour
MaxSupply == 2
\* number of store operations that fail with an I/O error in one behaviour
MaxFaults == 1
\* last value of the clock
MaxClock == 1

Runs == 1..MaxRuns
Platforms == {"reddit", "x", "youtube"}

(***************************************************************************)
(* Option<T> and Result<T, String>.                                        *)
(***************************************************************************)
None == [some |-> FALSE]
Some(x) == [some |-> TRUE, v |-> x]
Ok(x) == [ok |-> TRUE, v |-> x]
Err(e) == [ok |-> FALSE, e |-> e]

Min(a, b) == IF a <= b THEN a ELSE b

(***************************************************************************)
(* Text: a sequence of characters (one-character strings).                 *)
(***************************************************************************)
Upper == <<"A","B","C","D","E","F","G","H","I","J","K","L","M",
           "N","O","P","Q","R","S","T","U","V","W","X","Y","Z">>
Lowercase == <<"a","b","c","d","e","f","g","h","i","j","k","l","m",
           "n","o","p","q","r","s","t","u","v","w","x","y","z">>
Digits == {"0","1","2","3","4","5","6","7","8","9"}

\* char::to_lowercase on the ASCII range
LowerChar(c) ==
    IF \E k \in 1..26 : Upper[k] = c
    THEN Lowercase[CHOOSE k \in 1..26 : Upper[k] = c]
    ELSE c

\* str::to_lowercase
RECURSIVE to_lowercase(_)
to_lowercase(text) ==
    IF text = <<>> THEN <<>>
    ELSE <<LowerChar(Head(text))>> \o to_lowercase(Tail(text))

\* the regex class \w on the ASCII range
IsWordChar(c) ==
    \/ \E k \in 1..26 : Upper[k] = c \/ Lowercase[k] = c
    \/ c \in Digits
    \/ c = "_"

\* whether the character at index k of text exists and is a word character
WordAt(text, k) == k \in 1..Len(text) /\ IsWordChar(text[k])

\* the pattern without its \b assertions: the keyword matches as a substring
Boundary_none(text, g) == TRUE

\* the regex assertion \b between index g and index g+1 of text (g in 0..Len)
Boundary(text, g) == WordAt(text, g) # WordAt(text, g + 1)

\* whether \b<kw>\b (kw matched literally, regex::escape) matches text at
\* index p
MatchAt(kw, text, p) ==
    /\ p + Len(kw) - 1 <= Len(text)
    /\ \A k \in 1..Len(kw) : text[p + k - 1] = kw[k]
    /\ Boundary(text, p - 1)
    /\ Boundary(text, p + Len(kw) - 1)

\* regex.find_iter(text).count() from index p on: leftmost matches that do
\* not overlap; an empty match advances by one character
RECURSIVE FindCount(_, _, _)
FindCount(kw, text, p) ==
    IF p > Len(text) + 1 THEN 0
    ELSE IF MatchAt(kw, text, p)
         THEN 1 + FindCount(kw, text, IF Len(kw) = 0 THEN p + 1 ELSE p + Len(kw))
         ELSE FindCount(kw, text, p + 1)

\* match_count of one topic: the sum over its keywords
RECURSIVE MatchCount(_, _)
MatchCount(keywords, text) ==
    IF keywords = <<>> THEN 0
    ELSE FindCount(Head(keywords), text, 1) + MatchCount(Tail(keywords), text)

\* the confidence clamped one hit early: (match_count as f64 * 0.2).min(0.8),
\* in fifths
Confidence_clamped_early(match_count) == Min(match_count, 4)

\* (match_count as f64 * 0.2).min(1.0), in fifths
Confidence(match_count) == Min(match_count, 5)

\* the entries of one topic when every matching keyword pushes its own
\* ExtractedTopic
RECURSIVE PerKeyword(_, _, _)
PerKeyword(topic, keywords, normalized_text) ==
    IF keywords = <<>> THEN <<>>
    ELSE LET match_count == MatchCount(<<Head(keywords)>>, normalized_text)
         IN  (IF match_count > 0
              THEN <<[topic_id |-> topic.id, topic_name |-> topic.name,
                      confidence |-> Confidence(match_count),
                      mentions |-> match_count]>>
              ELSE <<>>)
             \o PerKeyword(topic, Tail(keywords), normalized_text)

\* the scoring loop with the push inside the keyword loop
RECURSIVE Scored_per_keyword(_, _)
Scored_per_keyword(catalog, normalized_text) ==
    IF catalog = <<>> THEN <<>>
    ELSE PerKeyword(Head(catalog), Head(catalog).keywords, normalized_text)
         \o Scored_per_keyword(Tail(catalog), normalized_text)

\* the topics with match_count > 0, in catalog order
RECURSIVE Scored(_, _)
Scored(catalog, normalized_text) ==
    IF catalog = <<>> THEN <<>>
    ELSE LET topic == Head(catalog)
             match_count == MatchCount(topic.keywords, normalized_text)
             rest == Scored(Tail(catalog), normalized_text)
         IN  IF match_count > 0
             THEN <<[topic_id |-> topic.id, topic_name |-> topic.name,
                     confidence |-> Confidence(match_count),
                     mentions |-> match_count]>> \o rest
             ELSE rest

\* the elements of extracted with confidence c, in their order
WithConfidence(extracted, c) ==
    LET Keep(t) == t.confidence = c IN SelectSeq(extracted, Keep)

RECURSIVE Reverse(_)
Reverse(s) == IF s = <<>> THEN <<>> ELSE Append(Reverse(Tail(s)), Head(s))

\* a sort that is not stable: equal confidences come out in reverse order
SortByConfidence_ties_reversed(extracted) ==
    Reverse(WithConfidence(extracted, 5)) \o Reverse(WithConfidence(extracted, 4))
        \o Reverse(WithConfidence(extracted, 3))
        \o Reverse(WithConfidence(extracted, 2))
        \o Reverse(WithConfidence(extracted, 1))

\* extracted.sort_by(confidence descending): the sort is stable, so equal
\* confidences keep their order
SortByConfidence(extracted) ==
    WithConfidence(extracted, 5) \o WithConfidence(extracted, 4)
        \o WithConfidence(extracted, 3) \o WithConfidence(extracted, 2)
        \o WithConfidence(extracted, 1)

\* extract_topics without extracted.truncate(5)
Truncate_none(s, n) == s

\* Vec::truncate keeping one element more
Truncate_off_by_one(s, n) == SubSeq(s, 1, Min(Len(s), n + 1))

\* Vec::truncate
Truncate(s, n) == SubSeq(s, 1, Min(Len(s), n))

\* extracted.truncate(5)
TopK == 5

\* extract_topics after load_topics returned catalog: the text is normalised
\* once, the catalog is scored once, and the result is sorted and truncated
extract_topics(text, catalog) ==
    LET Ranked(extracted) == Truncate(SortByConfidence(extracted), TopK)
    IN  CHOOSE result \in
            { Ranked(extracted) : extracted \in
                { Scored(catalog, normalized_text) :
                    normalized_text \in {to_lowercase(text)} } } : TRUE


(***************************************************************************)
(* Inputs: what the platforms and the settings file can hand to a run.     *)
(***************************************************************************)
ItemIds == {"p1", "p2"}

\* "AI btc BTC": cryptocurrency twice, artificial intelligence once
TextTwo == <<"A","I"," ","b","t","c"," ","B","T","C">>
\* "btc ai AI budget": artificial intelligence twice, cryptocurrency once,
\* personal finance once
TextThree == <<"b","t","c"," ","a","i"," ","A","I"," ","b","u","d","g","e","t">>
\* "Budget, budget!": personal finance twice
TextOne == <<"B","u","d","g","e","t",","," ","b","u","d","g","e","t","!">>
\* "said": the keyword ai occurs only inside a word
TextNone == <<"s","a","i","d">>

\* The payloads the platforms can return for an item id.  author is the
\* subreddit user, the X author_id or the YouTube channel_id; text is title +
\* "\n\n" + selftext trimmed (reddit), tweet.text (x), title + "\n\n" +
\* description trimmed (youtube); profile is the author's entry of
\* includes.users of an X search response (absent, or with or without
\* public_metrics); snippet is whether a YouTube VideoItem has its snippet.
Payloads ==
    { [id |-> "p1", author |-> "a1", text |-> TextTwo,
       profile |-> Some([name |-> "n1", metrics |-> Some(7)]), snippet |-> TRUE],
      [id |-> "p1", author |-> "a2", text |-> TextNone,
       profile |-> None, snippet |-> TRUE],
      [id |-> "p2", author |-> "a1", text |-> TextThree,
       profile |-> Some([name |-> "n2", metrics |-> Some(9)]), snippet |-> TRUE],
      [id |-> "p2", author |-> "a2", text |-> TextOne,
       profile |-> Some([name |-> "n1", metrics |-> None]), snippet |-> TRUE],
      [id |-> "p2", author |-> "a2", text |-> TextOne,
       profile |-> None, snippet |-> FALSE] }

\* the raw items of platform p with native id `id`: only x carries a profile,
\* only youtube can lack the snippet
RawItems(p, id) ==
    { [it EXCEPT !.profile = IF p = "x" THEN @ ELSE None] :
        it \in {x \in Payloads : x.id = id /\ (x.snippet \/ p = "youtube")} }

NoItem == [id |-> "", author |-> "", text |-> <<>>, profile |-> None, snippet |-> TRUE]

\* the sequences of item ids of length at most n
Batches(n) ==
    UNION { [1..k -> ItemIds] : k \in 0..n }

\* keywords as character sequences
KwBtc == <<"b","t","c">>
KwCrypto == <<"c","r","y","p","t","o">>
KwBudget == <<"b","u","d","g","e","t">>
KwAi == <<"a","i">>

\* The rows of the topics table in the order SELECT returns them.  An id is
\* the rank of the row's uuid in string order, which is independent of the
\* row order.
Catalog ==
    << [id |-> 2, name |-> "Cryptocurrency", keywords |-> <<KwBtc, KwCrypto>>],
       [id |-> 3, name |-> "Personal Finance", keywords |-> <<KwBudget>>],
       [id |-> 1, name |-> "Artificial Intelligence", keywords |-> <<KwAi>>] >>

(***************************************************************************)
(* State.                                                                  *)
(***************************************************************************)
VARIABLES
    state,                  \* COLLECTION_STATE
    database,               \* whether DATABASE holds a connection
    creators, content, content_topics, topic_cooccurrences, topics,
    run,                    \* the tasks: position and locals of each
    now,                    \* the clock
    next_uuid,              \* the uuids handed out so far
    supply,                 \* items the platforms can still hand out
    faults,                 \* I/O failures the store can still produce
    last_done               \* the run that terminated most recently

tables == <<creators, content, content_topics, topic_cooccurrences, topics>>
env == <<now, next_uuid, supply, faults>>
vars == <<state, database, tables, run, env, last_done>>

IdleRun ==
    [pc |-> "idle", platform |-> "reddit", credentials |-> FALSE, targets |-> 0,
     chunks |-> <<>>, batch |-> <<>>, item |-> NoItem,
     creator_id |-> 0, content_id |-> 0, topics_found |-> <<>>, i |-> 1, j |-> 2,
     total_posts |-> 0, total_topics |-> 0,
     collected |-> Ok([posts_collected |-> 0, topics_extracted |-> 0]),
     result |-> None,
     \* history, read by no step: the number of items the platform has
     \* handed to this run
     fetched |-> 0,
     \* history, read by no step: the ids of the content rows this run inserted
     my_content |-> {},
     \* history, read by no step: the pairs update_cooccurrences has written
     \* for the current item, in order
     touched |-> <<>>,
     \* history, read by no step: the pairs this run's upserts have written,
     \* in order
     upserts |-> <<>>,
     \* history, read by no step: for a read command, the runs that were
     \* between their guard and their return when it was issued
     during |-> {}]

Init ==
    /\ state = [is_running |-> FALSE, last_run_at |-> None, last_error |-> None]
    /\ database \in BOOLEAN
    /\ topics = (IF database THEN Catalog ELSE <<>>)
    /\ creators = {}
    /\ content = {}
    /\ content_topics = {}
    /\ topic_cooccurrences = {}
    /\ run = [r \in Runs |-> IdleRun]
    /\ now = 0
    /\ next_uuid = 0
    /\ supply = MaxSupply
    /\ faults = MaxFaults
    /\ last_done = None

(***************************************************************************)
(* Helpers of the steps.                                                   *)
(***************************************************************************)
Set(r, s) == run' = [run EXCEPT ![r] = s]

\* whether a store operation of this step hits an I/O error
FaultChoices == IF faults > 0 THEN {FALSE, TRUE} ELSE {FALSE}

\* with_db: Err when DATABASE holds no connection
DbErr == "Database not initialized"

\* the head of the per-target loop of collect: the next target's fetch, or
\* Ok(CollectionResult) after the last target
LoopHead(s) ==
    IF s.targets > 0
    THEN [s EXCEPT !.pc = "fetch"]
    ELSE [s EXCEPT !.pc = "collected",
                   !.collected = Ok([posts_collected |-> s.total_posts,
                                     topics_extracted |-> s.total_topics])]

\* `continue` of the per-query loop of youtube::collect
Continue(s) == LoopHead([s EXCEPT !.targets = @ - 1])

\* the head of `for chunk in video_ids.chunks(50)`
ChunkHead(s) ==
    IF s.chunks # <<>> THEN [s EXCEPT !.pc = "details"] ELSE [s EXCEPT !.pc = "sleep"]

\* the head of the per-item loop: the next item's dedup check, or the end
\* of the batch
ItemHead(s) ==
    IF s.batch # <<>> THEN [s EXCEPT !.pc = "exists"]
    ELSE IF s.platform = "youtube" THEN ChunkHead(s)
    ELSE [s EXCEPT !.pc = "sleep"]

\* process_*(..).await? in place of the match: the error of an item ends the
\* collector
Processed_propagating(s, res) ==
    IF res.ok
    THEN ItemHead([s EXCEPT !.total_posts = @ + 1, !.total_topics = @ + res.v,
                            !.batch = Tail(@), !.item = NoItem,
                            !.creator_id = 0, !.content_id = 0,
                            !.topics_found = <<>>, !.i = 1, !.j = 2,
                            !.touched = <<>>])
    ELSE [s EXCEPT !.pc = "collected", !.collected = res]

\* the match on process_post / process_tweet / process_video's result in
\* collect, then the next item
Processed(s, res) ==
    LET counted == IF res.ok
                   THEN [s EXCEPT !.total_posts = @ + 1,
                                  !.total_topics = @ + res.v]
                   ELSE s
    IN  ItemHead([counted EXCEPT !.batch = Tail(@), !.item = NoItem,
                                 !.creator_id = 0, !.content_id = 0,
                                 !.topics_found = <<>>, !.i = 1, !.j = 2,
                                 !.touched = <<>>])

(***************************************************************************)
(* Entry points (commands.rs).                                             *)
(***************************************************************************)
AlreadyRunning == "Collection already in progress"

Return(s, res) == [s EXCEPT !.pc = "returned", !.result = Some(res)]

\* the tasks are numbered in the order of their invocation
Invocable(r) ==
    /\ run[r].pc = "idle"
    /\ \A q \in Runs : q < r => run[q].pc # "idle"

\* run_collection up to its guard: load_settings, credentials.ok_or(..)?
run_collection(r) ==
    /\ Invocable(r)
    /\ \E credentials \in BOOLEAN, targets \in 0..MaxTargets :
         LET s == [run[r] EXCEPT !.platform = "reddit",
                                 !.credentials = credentials,
                                 !.targets = targets]
         IN  Set(r, IF ~credentials
                    THEN Return(s, Err("Reddit credentials not configured"))
                    ELSE [s EXCEPT !.pc = "guard"])
    /\ UNCHANGED <<state, database, tables, env, last_done>>

\* run_x_collection up to its guard: load_settings, credentials.ok_or(..)?,
\* queries.is_empty()
run_x_collection(r) ==
    /\ Invocable(r)
    /\ \E credentials \in BOOLEAN, targets \in 0..MaxTargets :
         LET s == [run[r] EXCEPT !.platform = "x",
                                 !.credentials = credentials,
                                 !.targets = targets]
         IN  Set(r, IF ~credentials
                    THEN Return(s, Err("X credentials not configured"))
                    ELSE IF targets = 0
                    THEN Return(s, Err("No X search queries configured"))
                    ELSE [s EXCEPT !.pc = "guard"])
    /\ UNCHANGED <<state, database, tables, env, last_done>>

\* run_youtube_collection up to its guard
run_youtube_collection(r) ==
    /\ Invocable(r)
    /\ \E credentials \in BOOLEAN, targets \in 0..MaxTargets :
         LET s == [run[r] EXCEPT !.platform = "youtube",
                                 !.credentials = credentials,
                                 !.targets = targets]
         IN  Set(r, IF ~credentials
                    THEN Return(s, Err("YouTube credentials not configured"))
                    ELSE IF targets = 0
                    THEN Return(s, Err("No YouTube search queries configured"))
                    ELSE [s EXCEPT !.pc = "guard"])
    /\ UNCHANGED <<state, database, tables, env, last_done>>

\* run_collection's guard without the test of is_running
run_collection_guard_unchecked(r) ==
    /\ run[r].pc = "guard"
    /\ run[r].platform = "reddit"
    /\ state' = [state EXCEPT !.is_running = TRUE, !.last_error = None]
    /\ Set(r, [run[r] EXCEPT !.pc = "token"])
    /\ UNCHANGED <<database, tables, env, last_done>>

\* run_collection's first critical section on COLLECTION_STATE: check and set
run_collection_guard(r) ==
    /\ run[r].pc = "guard"
    /\ run[r].platform = "reddit"
    /\ IF state.is_running
       THEN /\ Set(r, Return(run[r], Err(AlreadyRunning)))
            /\ UNCHANGED state
       ELSE /\ state' = [state EXCEPT !.is_running = TRUE, !.last_error = None]
            /\ Set(r, [run[r] EXCEPT !.pc = "token"])
    /\ UNCHANGED <<database, tables, env, last_done>>

\* run_x_collection_guard without its check of is_running
run_x_collection_guard_unchecked(r) ==
    /\ run[r].pc = "guard"
    /\ run[r].platform = "x"
    /\ Set(r, LoopHead(run[r]))
    /\ UNCHANGED <<state, database, tables, env, last_done>>

\* run_x_collection's critical section on COLLECTION_STATE: check only
run_x_collection_guard(r) ==
    /\ run[r].pc = "guard"
    /\ run[r].platform = "x"
    /\ Set(r, IF state.is_running
              THEN Return(run[r], Err(AlreadyRunning))
              ELSE LoopHead(run[r]))
    /\ UNCHANGED <<state, database, tables, env, last_done>>

\* run_youtube_collection's critical section on COLLECTION_STATE: check only
run_youtube_collection_guard(r) ==
    /\ run[r].pc = "guard"
    /\ run[r].platform = "youtube"
    /\ Set(r, IF state.is_running
              THEN Return(run[r], Err(AlreadyRunning))
              ELSE LoopHead(run[r]))
    /\ UNCHANGED <<state, database, tables, env, last_done>>

\* the terminal outcome of a run whose collector returned, at time `now`
Outcome(s) ==
    Some([run |-> s.platform, at |-> now,
          error |-> IF s.collected.ok THEN None ELSE Some(s.collected.e)])

\* run_collection_release with the `?` of collect's result taken before the
\* second critical section: a failed collector returns with the guard held
run_collection_release_on_success(r) ==
    /\ run[r].pc = "collected"
    /\ run[r].platform = "reddit"
    /\ state' = IF run[r].collected.ok
                THEN [is_running |-> FALSE, last_run_at |-> Some(now),
                      last_error |-> None]
                ELSE state
    /\ Set(r, Return(run[r], run[r].collected))
    /\ last_done' = Outcome(run[r])
    /\ UNCHANGED <<database, tables, env>>

\* run_collection's second critical section on COLLECTION_STATE, and its
\* return value
run_collection_release(r) ==
    /\ run[r].pc = "collected"
    /\ run[r].platform = "reddit"
    /\ state' = [is_running |-> FALSE,
                 last_run_at |-> Some(now),
                 last_error |-> IF run[r].collected.ok THEN None
                                ELSE Some(run[r].collected.e)]
    /\ Set(r, Return(run[r], run[r].collected))
    /\ last_done' = Outcome(run[r])
    /\ UNCHANGED <<database, tables, env>>

\* run_x_collection after x::collect: result.map(..)
run_x_collection_return(r) ==
    /\ run[r].pc = "collected"
    /\ run[r].platform = "x"
    /\ Set(r, Return(run[r], run[r].collected))
    /\ last_done' = Outcome(run[r])
    /\ UNCHANGED <<state, database, tables, env>>

\* run_youtube_collection after youtube::collect: result.map(..)
run_youtube_collection_return(r) ==
    /\ run[r].pc = "collected"
    /\ run[r].platform = "youtube"
    /\ Set(r, Return(run[r], run[r].collected))
    /\ last_done' = Outcome(run[r])
    /\ UNCHANGED <<state, database, tables, env>>

\* get_collection_status: reads the three fields under the lock
get_collection_status ==
    [is_running |-> state.is_running, last_run_at |-> state.last_run_at,
     last_error |-> state.last_error]

(***************************************************************************)
(* Collectors: the network steps.                                          *)
(***************************************************************************)
\* reddit::collect's get_access_token(credentials).await?
get_access_token(r) ==
    /\ run[r].pc = "token"
    /\ \E ok \in BOOLEAN :
         Set(r, IF ok THEN LoopHead(run[r])
                ELSE [run[r] EXCEPT !.pc = "collected",
                                    !.collected = Err("Failed to get token")])
    /\ UNCHANGED <<state, database, tables, env, last_done>>

\* fetch_subreddit_posts(..).await and the match on it
fetch_subreddit_posts(r) ==
    /\ run[r].pc = "fetch"
    /\ run[r].platform = "reddit"
    /\ \E ok \in BOOLEAN, posts \in Batches(supply) :
         /\ ~ok => posts = <<>>
         /\ supply' = supply - Len(posts)
         /\ Set(r, LET s == [run[r] EXCEPT !.batch = posts,
                                            !.fetched = @ + Len(posts)]
                   IN  ItemHead(s))
    /\ UNCHANGED <<state, database, tables, now, next_uuid, faults, last_done>>

\* search_tweets(..).await and the match on it
search_tweets(r) ==
    /\ run[r].pc = "fetch"
    /\ run[r].platform = "x"
    /\ \E ok \in BOOLEAN, tweets \in Batches(supply) :
         /\ ~ok => tweets = <<>>
         /\ supply' = supply - Len(tweets)
         /\ Set(r, LET s == [run[r] EXCEPT !.batch = tweets,
                                            !.fetched = @ + Len(tweets)]
                   IN  ItemHead(s))
    /\ UNCHANGED <<state, database, tables, now, next_uuid, faults, last_done>>

\* video_ids.chunks(50)
ChunkSize == 50

\* the longest search result the chunking is exercised with
MaxFound == 101

\* a search result of n video ids
LongBatch(n) == [k \in 1..n |-> IF k % 3 = 1 THEN "p1" ELSE "p2"]

\* the video ids a search can return when the platform can still hand out n
\* items: every sequence for a small n, and for a large n one sequence of
\* each length around the chunk boundaries
Found(n) ==
    IF n <= MaxSupply THEN Batches(n)
    ELSE {LongBatch(k) : k \in {j \in {0, 1, ChunkSize, ChunkSize + 1, MaxFound} : j <= n}}

RECURSIVE Chunks(_, _)
Chunks(ids, n) ==
    IF ids = <<>> THEN <<>>
    ELSE <<SubSeq(ids, 1, Min(n, Len(ids)))>>
         \o Chunks(SubSeq(ids, Min(n, Len(ids)) + 1, Len(ids)), n)

\* search_videos(..).await? in place of the match: a failed search ends the
\* collector
search_videos_propagating(r) ==
    /\ run[r].pc = "fetch"
    /\ run[r].platform = "youtube"
    /\ \E ok \in BOOLEAN, video_ids \in Found(supply) :
         /\ ~ok => video_ids = <<>>
         /\ supply' = supply - Len(video_ids)
         /\ Set(r, LET s == [run[r] EXCEPT !.chunks = Chunks(video_ids, ChunkSize)]
                   IN  IF ~ok THEN [s EXCEPT !.pc = "collected",
                                             !.collected = Err("Failed to search")]
                       ELSE IF video_ids = <<>> THEN Continue(s)
                       ELSE ChunkHead(s))
    /\ UNCHANGED <<state, database, tables, now, next_uuid, faults, last_done>>

\* search_videos(..).await and the match on it: an empty result continues
\* with the next query
search_videos(r) ==
    /\ run[r].pc = "fetch"
    /\ run[r].platform = "youtube"
    /\ \E ok \in BOOLEAN, video_ids \in Found(supply) :
         /\ ~ok => video_ids = <<>>
         /\ supply' = supply - Len(video_ids)
         /\ Set(r, LET s == [run[r] EXCEPT !.chunks = Chunks(video_ids, ChunkSize)]
                   IN  IF ~ok THEN [s EXCEPT !.pc = "sleep"]
                       ELSE IF video_ids = <<>> THEN Continue(s)
                       ELSE ChunkHead(s))
    /\ UNCHANGED <<state, database, tables, now, next_uuid, faults, last_done>>

\* get_video_details(chunk).await with `break` in the Err arm: a failed
\* detail fetch abandons the remaining chunks of the query
get_video_details_abandoning(r) ==
    /\ run[r].pc = "details"
    /\ \E ok \in BOOLEAN :
         Set(r, LET s == [run[r] EXCEPT !.chunks = Tail(@)]
                IN  IF ok THEN ItemHead([s EXCEPT !.batch = Head(run[r].chunks),
                                                  !.fetched = @ + Len(Head(run[r].chunks))])
                    ELSE ChunkHead([s EXCEPT !.chunks = <<>>]))
    /\ UNCHANGED <<state, database, tables, env, last_done>>

\* get_video_details(chunk).await and the match on it
get_video_details(r) ==
    /\ run[r].pc = "details"
    /\ \E ok \in BOOLEAN :
         Set(r, LET s == [run[r] EXCEPT !.chunks = Tail(@)]
                IN  IF ok THEN ItemHead([s EXCEPT !.batch = Head(run[r].chunks),
                                                  !.fetched = @ + Len(Head(run[r].chunks))])
                    ELSE ChunkHead(s))
    /\ UNCHANGED <<state, database, tables, env, last_done>>

\* tokio::time::sleep at the end of the per-target loop body
throttle(r) ==
    /\ run[r].pc = "sleep"
    /\ now' = Min(now + 1, MaxClock)
    /\ Set(r, Continue(run[r]))
    /\ UNCHANGED <<state, database, tables, next_uuid, supply, faults, last_done>>

(***************************************************************************)
(* Ingestion: process_post (reddit.rs), process_tweet (x.rs) and           *)
(* process_video (youtube.rs), one store operation per step.               *)
(***************************************************************************)
UniqueContent == "UNIQUE constraint failed: content.platform, content.platform_id"
UniqueCreator == "UNIQUE constraint failed: creators.platform, creators.platform_id"
IoError == "disk I/O error"

\* SELECT COUNT(*) FROM content WHERE platform = p AND platform_id = id
ContentCount(p, id) ==
    Cardinality({c \in content : c.platform = p /\ c.platform_id = id})

\* dedup_check without the SELECT COUNT(*): every item is taken as new
dedup_check_absent(r) ==
    /\ run[r].pc = "exists"
    /\ \E item \in RawItems(run[r].platform, Head(run[r].batch)) :
         LET s == [run[r] EXCEPT !.item = item] IN
         Set(r, IF ~database THEN Processed(s, Err(DbErr))
                ELSE IF ~item.snippet
                THEN Processed(s, Err("Missing video snippet"))
                ELSE [s EXCEPT !.pc = "creator"])
    /\ UNCHANGED <<state, database, tables, env, last_done>>

\* the dedup check at the head of process_post / process_tweet /
\* process_video, on the item the batch holds next; a video without snippet
\* fails after it
dedup_check(r) ==
    /\ run[r].pc = "exists"
    /\ \E item \in RawItems(run[r].platform, Head(run[r].batch)) :
         LET s == [run[r] EXCEPT !.item = item] IN
         Set(r, IF ~database THEN Processed(s, Err(DbErr))
                ELSE IF ContentCount(s.platform, item.id) > 0
                THEN Processed(s, Ok(0))
                ELSE IF ~item.snippet
                THEN Processed(s, Err("Missing video snippet"))
                ELSE [s EXCEPT !.pc = "creator"])
    /\ UNCHANGED <<state, database, tables, env, last_done>>

\* the SELECT without the platform condition
CreatorRows_any_platform(p, author) ==
    {c \in creators : c.platform_id = author}

\* the rows the SELECT of get_or_create_creator returns: reddit looks the
\* author up by username, x and youtube by platform_id
CreatorRows(p, author) ==
    IF p = "reddit"
    THEN {c \in creators : c.platform = "reddit" /\ c.username = author}
    ELSE {c \in creators : c.platform = p /\ c.platform_id = author}

\* whether get_or_create_creator runs its UPDATE for an existing creator:
\* only x, with the author's user object and its public_metrics
Refreshes(s) ==
    /\ s.platform = "x"
    /\ s.item.profile.some
    /\ s.item.profile.v.metrics.some

\* get_or_create_creator / get_or_create_creator_by_id: the SELECT
creator_lookup(r) ==
    /\ run[r].pc = "creator"
    /\ LET s == run[r]
           rows == CreatorRows(s.platform, s.item.author)
       IN  Set(r, IF ~database THEN Processed(s, Err(DbErr))
                  ELSE IF rows = {} THEN [s EXCEPT !.pc = "creator_insert"]
                  ELSE LET id == (CHOOSE c \in rows : TRUE).id
                       IN  [s EXCEPT !.creator_id = id,
                                     !.pc = IF Refreshes(s) THEN "creator_update"
                                            ELSE "content_insert"])
    /\ UNCHANGED <<state, database, tables, env, last_done>>

\* x.rs get_or_create_creator: UPDATE creators SET follower_count,
\* display_name WHERE platform = 'x' AND platform_id = ? (the columns
\* created_at and updated_at are not modelled)
creator_update(r) ==
    /\ run[r].pc = "creator_update"
    /\ LET s == run[r] IN
       \E fail \in FaultChoices :
         IF ~database \/ fail
         THEN /\ Set(r, Processed(s, Err(IF fail THEN IoError ELSE DbErr)))
              /\ faults' = IF fail THEN faults - 1 ELSE faults
              /\ UNCHANGED creators
         ELSE /\ creators' =
                   { IF c.platform = "x" /\ c.platform_id = s.item.author
                     THEN [c EXCEPT !.follower_count = s.item.profile.v.metrics,
                                    !.display_name = Some(s.item.profile.v.name)]
                     ELSE c : c \in creators }
              /\ Set(r, [s EXCEPT !.pc = "content_insert"])
              /\ UNCHANGED faults
    /\ UNCHANGED <<state, database, content, content_topics, topic_cooccurrences,
                   topics, now, next_uuid, supply, last_done>>

\* the row INSERT INTO creators writes for the item of s, with id `id`
NewCreator(s, id) ==
    [id |-> id, platform |-> s.platform, platform_id |-> s.item.author,
     username |-> s.item.author,
     display_name |->
        IF s.platform = "youtube" THEN Some("channel")
        ELSE IF s.platform = "x" /\ s.item.profile.some
        THEN Some(s.item.profile.v.name)
        ELSE None,
     follower_count |->
        IF s.platform = "x" /\ s.item.profile.some
        THEN (IF s.item.profile.v.metrics.some THEN s.item.profile.v.metrics
              ELSE Some(0))
        ELSE None]

\* the creators table without its UNIQUE(platform, platform_id)
CreatorConflict_none(row) == FALSE

\* UNIQUE(platform, platform_id) of creators
CreatorConflict(row) ==
    \E c \in creators : c.platform = row.platform /\ c.platform_id = row.platform_id

\* get_or_create_creator / get_or_create_creator_by_id: uuid and INSERT
creator_insert(r) ==
    /\ run[r].pc = "creator_insert"
    /\ LET s == run[r]
           row == NewCreator(s, next_uuid + 1)
       IN
       \E fail \in FaultChoices :
         IF ~database \/ fail \/ CreatorConflict(row)
         THEN /\ Set(r, Processed(s, Err(IF fail THEN IoError
                                         ELSE IF ~database THEN DbErr
                                         ELSE UniqueCreator)))
              /\ faults' = IF fail THEN faults - 1 ELSE faults
              /\ UNCHANGED <<creators, next_uuid>>
         ELSE /\ creators' = creators \cup {row}
              /\ next_uuid' = next_uuid + 1
              /\ Set(r, [s EXCEPT !.creator_id = row.id, !.pc = "content_insert"])
              /\ UNCHANGED faults
    /\ UNCHANGED <<state, database, content, content_topics, topic_cooccurrences,
                   topics, now, supply, last_done>>

\* the content table without its UNIQUE(platform, platform_id)
ContentConflict_none(row) == FALSE

\* UNIQUE(platform, platform_id) of content
ContentConflict(row) ==
    \E c \in content : c.platform = row.platform /\ c.platform_id = row.platform_id

\* content_insert as INSERT OR REPLACE INTO content: the row of the same
\* (platform, platform_id) is replaced by the new one
content_insert_or_replace(r) ==
    /\ run[r].pc = "content_insert"
    /\ LET s == run[r]
           row == [id |-> next_uuid + 1, platform |-> s.platform,
                   platform_id |-> s.item.id, creator_id |-> s.creator_id,
                   content_type |-> IF s.platform = "youtube" THEN "video" ELSE "post",
                   text_content |-> s.item.text]
       IN
       \E fail \in FaultChoices :
         IF ~database \/ fail
         THEN /\ Set(r, Processed(s, Err(IF fail THEN IoError ELSE DbErr)))
              /\ faults' = IF fail THEN faults - 1 ELSE faults
              /\ UNCHANGED <<content, next_uuid>>
         ELSE /\ content' = {c \in content : ~(c.platform = row.platform
                                                /\ c.platform_id = row.platform_id)}
                                \cup {row}
              /\ next_uuid' = next_uuid + 1
              /\ Set(r, [s EXCEPT !.content_id = row.id, !.pc = "extract",
                                  !.my_content = @ \cup {row.id}])
              /\ UNCHANGED faults
    /\ UNCHANGED <<state, database, creators, content_topics, topic_cooccurrences,
                   topics, now, supply, last_done>>

\* content_insert as INSERT OR IGNORE INTO content: a conflicting row is not
\* stored and the ingestion goes on with its own content id
content_insert_or_ignore(r) ==
    /\ run[r].pc = "content_insert"
    /\ LET s == run[r]
           row == [id |-> next_uuid + 1, platform |-> s.platform,
                   platform_id |-> s.item.id, creator_id |-> s.creator_id,
                   content_type |-> IF s.platform = "youtube" THEN "video" ELSE "post",
                   text_content |-> s.item.text]
       IN
       \E fail \in FaultChoices :
         IF ~database \/ fail
         THEN /\ Set(r, Processed(s, Err(IF fail THEN IoError ELSE DbErr)))
              /\ faults' = IF fail THEN faults - 1 ELSE faults
              /\ UNCHANGED <<content, next_uuid>>
         ELSE /\ content' = IF ContentConflict(row) THEN content
                            ELSE content \cup {row}
              /\ next_uuid' = next_uuid + 1
              /\ Set(r, [s EXCEPT !.content_id = row.id, !.pc = "extract",
                                  !.my_content = @ \cup {row.id}])
              /\ UNCHANGED faults
    /\ UNCHANGED <<state, database, creators, content_topics, topic_cooccurrences,
                   topics, now, supply, last_done>>

\* process_*: uuid and INSERT INTO content
content_insert(r) ==
    /\ run[r].pc = "content_insert"
    /\ LET s == run[r]
           row == [id |-> next_uuid + 1, platform |-> s.platform,
                   platform_id |-> s.item.id, creator_id |-> s.creator_id,
                   content_type |-> IF s.platform = "youtube" THEN "video" ELSE "post",
                   text_content |-> s.item.text]
       IN
       \E fail \in FaultChoices :
         IF ~database \/ fail \/ ContentConflict(row)
         THEN /\ Set(r, Processed(s, Err(IF fail THEN IoError
                                         ELSE IF ~database THEN DbErr
                                         ELSE UniqueContent)))
              /\ faults' = IF fail THEN faults - 1 ELSE faults
              /\ UNCHANGED <<content, next_uuid>>
         ELSE /\ content' = content \cup {row}
              /\ next_uuid' = next_uuid + 1
              /\ Set(r, [s EXCEPT !.content_id = row.id, !.pc = "extract",
                                  !.my_content = @ \cup {row.id}])
              /\ UNCHANGED faults
    /\ UNCHANGED <<state, database, creators, content_topics, topic_cooccurrences,
                   topics, now, supply, last_done>>

\* process_* returning the number of topics and of pairs it has written
Linked_counting_pairs(s) == Processed(s, Ok(Len(s.topics_found) + Len(s.touched)))

\* the state of process_* after its topic links and co-occurrences: Ok(topics_count)
Linked(s) == Processed(s, Ok(Len(s.topics_found)))

\* after the last INSERT into content_topics: `if topics.len() > 1`
AfterLinks(s) ==
    IF Len(s.topics_found) > 1 THEN [s EXCEPT !.pc = "cooccur", !.i = 1, !.j = 2]
    ELSE Linked(s)

\* extract_topics with load_topics().unwrap_or_default(): a catalog that
\* cannot be read counts as an empty one
load_topics_or_default(r) ==
    /\ run[r].pc = "extract"
    /\ LET s == run[r] IN
       \E fail \in FaultChoices, found \in {extract_topics(s.item.text, topics)} :
         /\ faults' = IF fail THEN faults - 1 ELSE faults
         /\ Set(r, LET t == [s EXCEPT !.topics_found =
                                        IF ~database \/ fail THEN <<>> ELSE found,
                                      !.i = 1]
                   IN  IF t.topics_found = <<>> THEN Linked(t)
                       ELSE [t EXCEPT !.pc = "link"])
    /\ UNCHANGED <<state, database, tables, now, next_uuid, supply, last_done>>

\* extract_topics(&text_content)?: load_topics is its one store operation
load_topics(r) ==
    /\ run[r].pc = "extract"
    /\ LET s == run[r] IN
       \E fail \in FaultChoices, found \in {extract_topics(s.item.text, topics)} :
         /\ faults' = IF fail THEN faults - 1 ELSE faults
         /\ Set(r, IF ~database \/ fail
                   THEN Processed(s, Err(IF fail THEN IoError ELSE DbErr))
                   ELSE LET t == [s EXCEPT !.topics_found = found, !.i = 1]
                        IN  IF found = <<>> THEN Linked(t)
                            ELSE [t EXCEPT !.pc = "link"])
    /\ UNCHANGED <<state, database, tables, now, next_uuid, supply, last_done>>

\* INSERT OR REPLACE INTO content_topics: the row with the same primary key
\* (content_id, topic_id) is replaced
InsertOrReplace(table, row) ==
    {x \in table : ~(x.content_id = row.content_id /\ x.topic_id = row.topic_id)}
        \cup {row}

\* link_topic storing 1.0 in place of topic.confidence
link_topic_full_confidence(r) ==
    /\ run[r].pc = "link"
    /\ LET s == run[r]
           topic == s.topics_found[s.i]
       IN
       \E fail \in FaultChoices :
         IF ~database \/ fail
         THEN /\ Set(r, Processed(s, Err(IF fail THEN IoError ELSE DbErr)))
              /\ faults' = IF fail THEN faults - 1 ELSE faults
              /\ UNCHANGED content_topics
         ELSE /\ content_topics' =
                   InsertOrReplace(content_topics,
                                   [content_id |-> s.content_id,
                                    topic_id |-> topic.topic_id,
                                    confidence |-> 5])
              /\ Set(r, IF s.i < Len(s.topics_found)
                        THEN [s EXCEPT !.i = @ + 1]
                        ELSE AfterLinks(s))
              /\ UNCHANGED faults
    /\ UNCHANGED <<state, database, creators, content, topic_cooccurrences,
                   topics, now, next_uuid, supply, last_done>>

\* one iteration of `for topic in &topics`
link_topic(r) ==
    /\ run[r].pc = "link"
    /\ LET s == run[r]
           topic == s.topics_found[s.i]
       IN
       \E fail \in FaultChoices :
         IF ~database \/ fail
         THEN /\ Set(r, Processed(s, Err(IF fail THEN IoError ELSE DbErr)))
              /\ faults' = IF fail THEN faults - 1 ELSE faults
              /\ UNCHANGED content_topics
         ELSE /\ content_topics' =
                   InsertOrReplace(content_topics,
                                   [content_id |-> s.content_id,
                                    topic_id |-> topic.topic_id,
                                    confidence |-> topic.confidence])
              /\ Set(r, IF s.i < Len(s.topics_found)
                        THEN [s EXCEPT !.i = @ + 1]
                        ELSE AfterLinks(s))
              /\ UNCHANGED faults
    /\ UNCHANGED <<state, database, creators, content, topic_cooccurrences,
                   topics, now, next_uuid, supply, last_done>>

\* update_cooccurrences writing the pair in extraction order
CanonicalPair_extraction_order(a, b) == <<a, b>>

\* the ordered pair update_cooccurrences writes for topic_ids[i], topic_ids[j]
CanonicalPair(a, b) == IF a < b THEN <<a, b>> ELSE <<b, a>>

\* the upsert as INSERT OR IGNORE: an existing row is left as it is
Upsert_ignore(table, pair) ==
    IF \E x \in table : x.topic_a_id = pair[1] /\ x.topic_b_id = pair[2]
    THEN table
    ELSE table \cup {[topic_a_id |-> pair[1], topic_b_id |-> pair[2],
                      frequency |-> 1, last_seen |-> now]}

\* the upsert with decay: the rows last seen before the current time are
\* dropped
Upsert_decay(table, pair) ==
    LET kept == {x \in table : x.last_seen >= now
                               \/ (x.topic_a_id = pair[1] /\ x.topic_b_id = pair[2])}
    IN  IF \E x \in kept : x.topic_a_id = pair[1] /\ x.topic_b_id = pair[2]
        THEN { IF x.topic_a_id = pair[1] /\ x.topic_b_id = pair[2]
               THEN [x EXCEPT !.frequency = @ + 1, !.last_seen = now]
               ELSE x : x \in kept }
        ELSE kept \cup {[topic_a_id |-> pair[1], topic_b_id |-> pair[2],
                         frequency |-> 1, last_seen |-> now]}

\* INSERT INTO topic_cooccurrences .. ON CONFLICT(topic_a_id, topic_b_id)
\* DO UPDATE SET frequency = frequency + 1, last_seen = CURRENT_TIMESTAMP
Upsert(table, pair) ==
    IF \E x \in table : x.topic_a_id = pair[1] /\ x.topic_b_id = pair[2]
    THEN { IF x.topic_a_id = pair[1] /\ x.topic_b_id = pair[2]
           THEN [x EXCEPT !.frequency = @ + 1, !.last_seen = now]
           ELSE x : x \in table }
    ELSE table \cup {[topic_a_id |-> pair[1], topic_b_id |-> pair[2],
                      frequency |-> 1, last_seen |-> now]}

\* update_cooccurrences pairing each topic with its successor only
update_cooccurrences_adjacent(r) ==
    /\ run[r].pc = "cooccur"
    /\ LET s == run[r]
           n == Len(s.topics_found)
           pair == CanonicalPair(s.topics_found[s.i].topic_id,
                                 s.topics_found[s.j].topic_id)
       IN
       \E fail \in FaultChoices :
         IF ~database \/ fail
         THEN /\ Set(r, Processed(s, Err(IF fail THEN IoError ELSE DbErr)))
              /\ faults' = IF fail THEN faults - 1 ELSE faults
              /\ UNCHANGED topic_cooccurrences
         ELSE /\ topic_cooccurrences' = Upsert(topic_cooccurrences, pair)
              /\ Set(r, LET t == [s EXCEPT !.touched = Append(@, pair),
                                          !.upserts = Append(@, pair)]
                        IN  IF s.i + 1 < n
                            THEN [t EXCEPT !.i = @ + 1, !.j = s.i + 2]
                            ELSE Linked(t))
              /\ UNCHANGED faults
    /\ UNCHANGED <<state, database, creators, content, content_topics,
                   topics, now, next_uuid, supply, last_done>>

\* one iteration of the inner loop of update_cooccurrences
update_cooccurrences(r) ==
    /\ run[r].pc = "cooccur"
    /\ LET s == run[r]
           n == Len(s.topics_found)
           pair == CanonicalPair(s.topics_found[s.i].topic_id,
                                 s.topics_found[s.j].topic_id)
       IN
       \E fail \in FaultChoices :
         IF ~database \/ fail
         THEN /\ Set(r, Processed(s, Err(IF fail THEN IoError ELSE DbErr)))
              /\ faults' = IF fail THEN faults - 1 ELSE faults
              /\ UNCHANGED topic_cooccurrences
         ELSE /\ topic_cooccurrences' = Upsert(topic_cooccurrences, pair)
              /\ Set(r, LET t == [s EXCEPT !.touched = Append(@, pair),
                                          !.upserts = Append(@, pair)]
                        IN  IF s.j < n THEN [t EXCEPT !.j = @ + 1]
                            ELSE IF s.i + 1 < n
                            THEN [t EXCEPT !.i = @ + 1, !.j = s.i + 2]
                            ELSE Linked(t))
              /\ UNCHANGED faults
    /\ UNCHANGED <<state, database, creators, content, content_topics,
                   topics, now, next_uuid, supply, last_done>>

(***************************************************************************)
(* Specification.                                                          *)
(***************************************************************************)
Step(r) ==
    \/ run_collection(r)
    \/ run_x_collection(r)
    \/ run_youtube_collection(r)
    \/ run_collection_guard(r)
    \/ run_x_collection_guard(r)
    \/ run_youtube_collection_guard(r)
    \/ get_access_token(r)
    \/ fetch_subreddit_posts(r)
    \/ search_tweets(r)
    \/ search_videos(r)
    \/ get_video_details(r)
    \/ dedup_check(r)
    \/ creator_lookup(r)
    \/ creator_update(r)
    \/ creator_insert(r)
    \/ content_insert(r)
    \/ load_topics(r)
    \/ link_topic(r)
    \/ update_cooccurrences(r)
    \/ throttle(r)
    \/ run_collection_release(r)
    \/ run_x_collection_return(r)
    \/ run_youtube_collection_return(r)

Next == \E r \in Runs : Step(r)

Spec == Init /\ [][Next]_vars

\* The steps of the tasks of run_collection alone: the only command that
\* writes the run state.
RedditStep(r) ==
    \/ run_collection(r)
    \/ run_collection_guard(r)
    \/ get_access_token(r)
    \/ fetch_subreddit_posts(r)
    \/ dedup_check(r)
    \/ creator_lookup(r)
    \/ creator_insert(r)
    \/ content_insert(r)
    \/ load_topics(r)
    \/ link_topic(r)
    \/ update_cooccurrences(r)
    \/ throttle(r)
    \/ run_collection_release(r)

RedditNext == \E r \in Runs : RedditStep(r)

\* the steps of a task once its command has been invoked
Progress(r) == run[r].pc # "idle" /\ RedditStep(r)

\* The runtime keeps scheduling the tasks, and every network call and sleep
\* of a task returns: some invoked task that can take a step eventually
\* takes one.  Every task ends after finitely many steps, so this is enough
\* for each of them to end.
FairSpec ==
    Init /\ [][RedditNext]_vars /\ WF_vars(\E r \in Runs : Progress(r))

(***************************************************************************)
(* Topic extraction on its own: process_post at its call of extract_topics *)
(* for each of the texts and catalogs below.                               *)
(***************************************************************************)
\* longest text, in words
MaxWords == 3

KwEth == <<"e","t","h">>
\* a keyword of two words, like "real estate" of the seeded topics
KwBtcEth == <<"b","t","c"," ","e","t","h">>
\* a keyword that is not lower-case
KwUpperAi == <<"A","I">>

\* the words of the texts: "ai", "AI-ai-Ai", "btc", "eth", "said"
Words == { KwAi, <<"A","I","-","a","i","-","A","i">>, KwBtc, KwEth, TextNone }

\* the words separated by one space
RECURSIVE Join(_)
Join(words) ==
    IF words = <<>> THEN <<>>
    ELSE IF Len(words) = 1 THEN Head(words)
    ELSE Head(words) \o <<" ">> \o Join(Tail(words))

Texts == { Join(words) : words \in UNION { [1..k -> Words] : k \in 0..MaxWords } }

\* topics that share keywords: one text can match more than five of them
WideCatalog ==
    << [id |-> 4, name |-> "Bitcoin", keywords |-> <<KwBtc>>],
       [id |-> 1, name |-> "Artificial Intelligence", keywords |-> <<KwAi>>],
       [id |-> 6, name |-> "Ethereum", keywords |-> <<KwEth>>],
       [id |-> 2, name |-> "Cryptocurrency", keywords |-> <<KwBtc, KwEth, KwCrypto>>],
       [id |-> 7, name |-> "Trading Pairs", keywords |-> <<KwBtcEth>>],
       [id |-> 3, name |-> "Fintech", keywords |-> <<KwAi, KwBtc>>],
       [id |-> 5, name |-> "Technology", keywords |-> <<KwAi, KwEth, KwBtc>>] >>

\* a row whose keywords column is NULL (unwrap_or_default: no keywords) and
\* a row with an upper-case keyword
MixedCatalog ==
    << [id |-> 1, name |-> "Artificial Intelligence", keywords |-> <<KwAi>>],
       [id |-> 2, name |-> "Untagged", keywords |-> <<>>],
       [id |-> 3, name |-> "Acronyms", keywords |-> <<KwUpperAi>>] >>

Catalogs == {Catalog, WideCatalog, MixedCatalog}

\* process_post of the first post of a Reddit run, after its INSERT INTO
\* content and before extract_topics(&text_content)
ExtractInit ==
    /\ state = [is_running |-> TRUE, last_run_at |-> None, last_error |-> None]
    /\ database = TRUE
    /\ topics \in Catalogs
    /\ \E text \in Texts :
         LET item == [id |-> "p1", author |-> "a1", text |-> text,
                      profile |-> None, snippet |-> TRUE]
             s == [IdleRun EXCEPT !.pc = "extract", !.credentials = TRUE,
                                  !.targets = 1, !.batch = <<"p1">>,
                                  !.fetched = 1,
                                  !.item = item, !.creator_id = 1,
                                  !.content_id = 2, !.my_content = {2}]
         IN  /\ run = [r \in Runs |-> IF r = 1 THEN s ELSE IdleRun]
             /\ creators = {NewCreator(s, 1)}
             /\ content = {[id |-> 2, platform |-> "reddit", platform_id |-> "p1",
                            creator_id |-> 1, content_type |-> "post",
                            text_content |-> text]}
    /\ content_topics = {}
    /\ topic_cooccurrences = {}
    /\ now = 0
    /\ next_uuid = 2
    /\ supply = MaxSupply - 1
    /\ faults = MaxFaults
    /\ last_done = None

\* the rest of process_post: extraction, topic links, co-occurrences
ExtractNext ==
    \E r \in Runs :
        \/ load_topics(r)
        \/ link_topic(r)
        \/ update_cooccurrences(r)

ExtractSpec == ExtractInit /\ [][ExtractNext]_vars

(***************************************************************************)
(* Properties.                                                             *)
(***************************************************************************)
\* the task is between the guard of its entry point and the return of
\* its collector
InCollector(r) ==
    run[r].pc \in {"token", "fetch", "details", "exists", "creator",
                   "creator_update", "creator_insert", "content_insert",
                   "extract", "link", "cooccur", "sleep"}

\* the task passed the guard and has not returned yet
Active(r) == InCollector(r) \/ run[r].pc = "collected"

(***************************************************************************)
(* A read command beside the tasks of run_collection.                      *)
(***************************************************************************)
\* get_dashboard_stats is invoked: its thread is about to call with_db.  The
\* task's platform field names the command.
get_dashboard_stats(r) ==
    /\ Invocable(r)
    /\ Set(r, [run[r] EXCEPT !.platform = "stats", !.pc = "read",
                             !.during = {q \in Runs : Active(q)}])
    /\ UNCHANGED <<state, database, tables, env, last_done>>

\* with_db holding DATABASE from the invocation of a collector to its return
get_dashboard_stats_query_after_run(r) ==
    /\ run[r].pc = "read"
    /\ \A q \in Runs : ~InCollector(q)
    /\ \E fail \in FaultChoices :
         /\ faults' = IF fail THEN faults - 1 ELSE faults
         /\ Set(r, Return(run[r],
                IF ~database THEN Err(DbErr)
                ELSE IF fail THEN Err(IoError)
                ELSE Ok([total_content |-> Cardinality(content),
                         total_topics |-> Len(topics),
                         total_creators |-> Cardinality(creators)])))
    /\ UNCHANGED <<state, database, tables, now, next_uuid, supply, last_done>>

\* get_dashboard_stats: its one with_db call (lock, the COUNT(*) queries,
\* unlock) and its return
get_dashboard_stats_query(r) ==
    /\ run[r].pc = "read"
    /\ \E fail \in FaultChoices :
         /\ faults' = IF fail THEN faults - 1 ELSE faults
         /\ Set(r, Return(run[r],
                IF ~database THEN Err(DbErr)
                ELSE IF fail THEN Err(IoError)
                ELSE Ok([total_content |-> Cardinality(content),
                         total_topics |-> Len(topics),
                         total_creators |-> Cardinality(creators)])))
    /\ UNCHANGED <<state, database, tables, now, next_uuid, supply, last_done>>

ReadStep(r) ==
    \/ RedditStep(r)
    \/ get_dashboard_stats(r)
    \/ get_dashboard_stats_query(r)

ReadNext == \E r \in Runs : ReadStep(r)

\* The thread of a read command is scheduled: a query that can take the lock
\* eventually takes it.  Nothing is assumed about the runs.
ReadSpec ==
    Init /\ [][ReadNext]_vars
         /\ \A r \in Runs : WF_vars(get_dashboard_stats_query(r))


\* the content_topics rows of the content rows task r inserted
LinksOf(r) == {x \in content_topics : x.content_id \in run[r].my_content}

\* C1: at most one collection run executes its collector at a time, whatever
\* entry points the runs were started through.
C1_MutualExclusion ==
    Cardinality({r \in Runs : InCollector(r)}) <= 1

\* C2: a call that reaches the guard of any entry point while is_running is
\* true returns the "already in progress" error in that step, whatever the
\* active run is doing, and leaves the run state as it was.
C2_RejectedWhileRunning ==
    [][\A r \in Runs :
         (run[r].pc = "guard" /\ run'[r] # run[r] /\ state.is_running)
         => /\ run'[r].pc = "returned"
            /\ run'[r].result = Some(Err(AlreadyRunning))
            /\ state' = state]_vars

\* C2 witness: a call was rejected while the run holding the guard was still
\* in its collector.
C2_Witness ==
    \E r, q \in Runs :
        /\ run[r].result = Some(Err(AlreadyRunning))
        /\ InCollector(q)
        /\ state.is_running

\* C3: for every entry point, the step that passes the guard sets is_running
\* and clears last_error, and the step after the collector returned clears
\* is_running, sets last_run_at to the current time and last_error to the
\* collector's outcome.
C3_GuardSetAndReleased ==
    [][\A r \in Runs :
         /\ (run[r].pc = "guard" /\ InCollector(r)')
            => (state'.is_running /\ state'.last_error = None)
         /\ (run[r].pc = "collected" /\ run'[r].pc = "returned")
            => state' = [is_running |-> FALSE,
                         last_run_at |-> Some(now),
                         last_error |-> IF run[r].collected.ok THEN None
                                        ELSE Some(run[r].collected.e)]]_vars

\* C4: whenever is_running is true it eventually becomes false again.
C4_GuardReleased == state.is_running ~> ~state.is_running

\* C4 witness: a run whose collector failed entirely (no token) has held the
\* guard and released it.
C4_Witness ==
    \E r \in Runs :
        /\ run[r].pc = "returned"
        /\ run[r].result = Some(Err("Failed to get token"))
        /\ ~state.is_running
        /\ state.last_run_at.some

\* C5: whenever no run is active, last_error and last_run_at are those of
\* the run that terminated most recently.
C5_LastOutcomeRecorded ==
    ((\A r \in Runs : ~Active(r)) /\ last_done.some)
    => /\ state.last_error = last_done.v.error
       /\ state.last_run_at = Some(last_done.v.at)

\* C6: no call with absent credentials or with an empty list of targets
\* gets as far as the run guard.
C6_ConfigCheckedFirst ==
    \A r \in Runs :
        run[r].pc = "guard" => (run[r].credentials /\ run[r].targets > 0)

C8_PostsCollectedCountsNew ==
    \A r \in Runs :
        (run[r].pc = "returned" /\ run[r].result.some /\ run[r].result.v.ok)
        => run[r].result.v.v.posts_collected = Cardinality(run[r].my_content)

\* C8, the half that fails on duplicates alone: a run never reports more
\* posts than it inserted content rows.
C8_DuplicatesNotCounted ==
    \A r \in Runs :
        (run[r].pc = "returned" /\ run[r].result.some /\ run[r].result.v.ok)
        => run[r].result.v.v.posts_collected <= Cardinality(run[r].my_content)

\* C9: the topics_extracted a run returns is the number of content_topics
\* rows the run created.
C9_TopicsExtractedCountsLinks ==
    \A r \in Runs :
        (run[r].pc = "returned" /\ run[r].result.some /\ run[r].result.v.ok)
        => run[r].result.v.v.topics_extracted = Cardinality(LinksOf(r))

\* C10: the content table holds at most one row per (platform, platform_id).
C10_ContentUnique ==
    \A c, d \in content :
        (c.platform = d.platform /\ c.platform_id = d.platform_id) => c = d

\* C10 witness: a task is about to insert an item that another ingestion
\* stored after this task's dedup check.
C10_Witness ==
    \E r \in Runs :
        /\ run[r].pc = "content_insert"
        /\ ContentCount(run[r].platform, run[r].item.id) > 0

\* C11: every topic_cooccurrences row has topic_a_id < topic_b_id, so no two
\* rows hold the same two topics in both orders, whatever order extraction
\* returned the topics in.
C11_CanonicalPairs ==
    /\ \A x \in topic_cooccurrences : x.topic_a_id < x.topic_b_id
    /\ \A x, y \in topic_cooccurrences :
           ~(x.topic_a_id = y.topic_b_id /\ x.topic_b_id = y.topic_a_id)

\* C11 witness: a row written for an item whose extraction returned the
\* larger topic id first ("AI btc BTC": cryptocurrency, then artificial
\* intelligence).
C11_Witness ==
    /\ topic_cooccurrences # {}
    /\ \A c \in content : c.text_content = TextTwo

\* the row of pair <<a, b>> in table, as a set (empty when there is none)
PairRows(table, a, b) ==
    {x \in table : x.topic_a_id = a /\ x.topic_b_id = b}

\* the unordered pairs of the topic ids of an extraction result
PairsOf(found) ==
    { {found[i].topic_id, found[j].topic_id} :
        i \in 1..Len(found), j \in 1..Len(found) } \ { {found[i].topic_id} : i \in 1..Len(found) }

\* C12: every successful co-occurrence write of an ingestion changes the row
\* of one pair of the item's topics and no other row: a pair with no row
\* gets a row with frequency 1, an existing row gets frequency + 1 and
\* last_seen refreshed; and when the ingestion of an item with k >= 2 topics
\* ends with its last write, it has written each of the k(k-1)/2 unordered
\* pairs of its topics exactly once.
C12_PairsTouchedOnce ==
    [][\A r \in Runs :
         (/\ run[r].pc = "cooccur"
          /\ run'[r] # run[r]
          /\ topic_cooccurrences' # topic_cooccurrences)
         => LET found == run[r].topics_found
                k == Len(found)
                x == found[run[r].i].topic_id
                y == found[run[r].j].topic_id
                a == IF x < y THEN x ELSE y
                b == IF x < y THEN y ELSE x
                old == PairRows(topic_cooccurrences, a, b)
                new == PairRows(topic_cooccurrences', a, b)
                written == run[r].touched \o << <<a, b>> >>
            IN  /\ x # y
                /\ topic_cooccurrences' \ new = topic_cooccurrences \ old
                /\ Cardinality(old) <= 1
                /\ old = {} =>
                      new = {[topic_a_id |-> a, topic_b_id |-> b,
                              frequency |-> 1, last_seen |-> now]}
                /\ \A o \in old :
                      new = {[o EXCEPT !.frequency = o.frequency + 1,
                                       !.last_seen = now]}
                /\ run'[r].pc # "cooccur" =>
                      /\ k >= 2
                      /\ 2 * Len(written) = k * (k - 1)
                      /\ {{written[n][1], written[n][2]} : n \in 1..Len(written)}
                            = PairsOf(found)
                      /\ run'[r].total_topics = run[r].total_topics + k]_vars

\* C12 witness: an item with three topics has been ingested after an item
\* with two of them: three pairs have a row, and the pair both items share
\* has frequency 2.
C12_Witness ==
    /\ Cardinality(topic_cooccurrences) = 3
    /\ \E x \in topic_cooccurrences : x.frequency = 2
    /\ \A r \in Runs : run[r].pc \notin {"link", "cooccur"}

\* the task is inside process_post / process_tweet / process_video
Ingesting(r) ==
    run[r].pc \in {"exists", "creator", "creator_update", "creator_insert",
                   "content_insert", "extract", "link", "cooccur"}

\* the content rows linked to both topic a and topic b
CoTagged(a, b) ==
    {c \in content :
        /\ \E x \in content_topics : x.content_id = c.id /\ x.topic_id = a
        /\ \E x \in content_topics : x.content_id = c.id /\ x.topic_id = b}

\* the ids of the topics table
TopicIds == {topics[k].id : k \in 1..Len(topics)}

\* C13: whenever no ingestion is in progress, the frequency of every pair
\* A < B is the number of content rows linked to both A and B, and a pair of
\* no such content has no row.
C13_EdgeWeight ==
    (\A r \in Runs : ~Ingesting(r))
    => \A a, b \in TopicIds :
         a < b =>
           LET n == Cardinality(CoTagged(a, b))
               rows == PairRows(topic_cooccurrences, a, b)
           IN  IF n = 0 THEN rows = {}
               ELSE \E x \in rows : rows = {x} /\ x.frequency = n

\* C14: no step deletes a topic_cooccurrences row or lowers its frequency.
C14_FrequencyMonotone ==
    [][\A x \in topic_cooccurrences :
         \E y \in topic_cooccurrences' :
            /\ y.topic_a_id = x.topic_a_id
            /\ y.topic_b_id = x.topic_b_id
            /\ y.frequency >= x.frequency]_vars

\* C14 witness: a pair has been written again at a later time while a row
\* last seen before that time is still there.
C14_Witness ==
    \E x, y \in topic_cooccurrences :
        /\ x.frequency = 2
        /\ x.last_seen > y.last_seen

\* how many upserts of pair <<a, b>> task r has executed
UpsertsOf(r, a, b) ==
    Cardinality({n \in 1..Len(run[r].upserts) : run[r].upserts[n] = <<a, b>>})

RECURSIVE SumUpserts(_, _, _)
SumUpserts(rs, a, b) ==
    IF rs = {} THEN 0
    ELSE LET r == CHOOSE q \in rs : TRUE
         IN  UpsertsOf(r, a, b) + SumUpserts(rs \ {r}, a, b)

\* C15: no co-occurrence update is lost: the frequency of every pair is the
\* number of upserts all tasks have executed on it, however the ingestions
\* interleave.
C15_NoLostUpdate ==
    \A a, b \in TopicIds :
        LET n == SumUpserts(Runs, a, b)
            rows == PairRows(topic_cooccurrences, a, b)
        IN  IF n = 0 THEN rows = {}
            ELSE \E x \in rows : rows = {x} /\ x.frequency = n

\* C15 witness: two tasks are both inside the co-occurrence loop of an
\* ingestion, both have written the same pair, and its frequency is 2.
C15_Witness ==
    \E r, q \in Runs, x \in topic_cooccurrences :
        /\ r # q
        /\ run[r].pc = "cooccur" /\ run[q].pc = "cooccur"
        /\ run[r].touched # <<>> /\ run[q].touched # <<>>
        /\ run[r].touched[1] = <<x.topic_a_id, x.topic_b_id>>
        /\ run[q].touched[1] = <<x.topic_a_id, x.topic_b_id>>
        /\ x.frequency = 2

\* at most one creators row per (platform, platform_id)
CreatorsUnique ==
    \A c, d \in creators :
        (c.platform = d.platform /\ c.platform_id = d.platform_id) => c = d

\* C16: the creators table holds at most one row per (platform,
\* platform_id) in every state, and no step deletes a creator row.
C16_CreatorsUniqueAndKept ==
    /\ CreatorsUnique
    /\ [][/\ CreatorsUnique'
          /\ \A c \in creators :
                \E d \in creators' :
                   /\ d.id = c.id
                   /\ d.platform = c.platform
                   /\ d.platform_id = c.platform_id]_vars

\* C16 witness: a task that found no creator row is about to insert one
\* for an author whose row another ingestion has inserted since.
C16_Witness ==
    \E r \in Runs :
        /\ run[r].pc = "creator_insert"
        /\ \E c \in creators :
              c.platform = run[r].platform /\ c.platform_id = run[r].item.author

\* C17: when the ingestion of an X item finds a creator row of the item's
\* author and the payload carries the author's profile, a row that differs
\* from the payload is refreshed: the lookup is followed by the UPDATE, and
\* the UPDATE sets the row's display name and follower count to the
\* payload's values, keeps its id and adds no row.
C17_CreatorRefreshed ==
    [][\A r \in Runs :
         LET s == run[r]
             rows == CreatorRows("x", s.item.author)
             name == Some(s.item.profile.v.name)
             followers == s.item.profile.v.metrics
         IN  (/\ s.platform = "x"
              /\ run'[r] # s
              /\ database
              /\ s.item.profile.some
              /\ rows # {})
             => /\ (/\ s.pc = "creator"
                    /\ \E c \in rows :
                          \/ c.display_name # name
                          \/ (followers.some /\ c.follower_count # followers))
                   => /\ run'[r].pc = "creator_update"
                      /\ \E c \in rows : run'[r].creator_id = c.id
                /\ (s.pc = "creator_update" /\ run'[r].pc = "content_insert")
                   => /\ Cardinality(creators') = Cardinality(creators)
                      /\ \E d \in creators' :
                            /\ d.id = s.creator_id
                            /\ d.platform = "x"
                            /\ d.platform_id = s.item.author
                            /\ d.display_name = name
                            /\ followers.some => d.follower_count = followers]_vars


\* the step of task r is extract_topics returning Ok(..)
Extracts(r) ==
    /\ run[r].pc = "extract"
    /\ \/ run'[r].pc = "link"
       \/ run'[r].total_posts = run[r].total_posts + 1

\* the list that call of extract_topics returned to process_post: the empty
\* list goes on to Ok(0) at once
Extracted(r) == IF run'[r].pc = "link" THEN run'[r].topics_found ELSE <<>>

\* whether the topic with this id is in found
Returned(found, id) == \E k \in 1..Len(found) : found[k].topic_id = id

\* the confidence of a catalog topic for a text
TopicConfidence(topic, text) ==
    Confidence(MatchCount(topic.keywords, to_lowercase(text)))

\* C18: for every text and every catalog, the list extract_topics returns
\* has at most five elements, its confidences do not increase from the first
\* to the last, and no catalog topic that is left out of it has a confidence
\* above that of a returned topic.
C18_RankedTopFive ==
    [][\A r \in Runs :
         Extracts(r) =>
           LET found == Extracted(r)
               text == run[r].item.text
           IN  /\ Len(found) <= 5
               /\ \A k \in 1..(Len(found) - 1) :
                    found[k].confidence >= found[k + 1].confidence
               /\ \A c \in 1..Len(topics), k \in 1..Len(found) :
                    ~Returned(found, topics[c].id)
                    => TopicConfidence(topics[c], text) <= found[k].confidence]_vars

\* a call has returned five topics of different confidences and left out a
\* topic that the text mentions
C18_Witness ==
    \E r \in Runs :
        /\ run[r].pc = "link"
        /\ Len(run[r].topics_found) = 5
        /\ run[r].topics_found[1].confidence > run[r].topics_found[5].confidence
        /\ \E c \in 1..Len(topics) :
             /\ ~Returned(run[r].topics_found, topics[c].id)
             /\ TopicConfidence(topics[c], run[r].item.text) > 0

\* C19: every returned topic has confidence min(0.2 * mentions, 1.0), in
\* fifths min(mentions, 5): one fifth per hit up to four hits, and five
\* fifths for five hits or more.
C19_ConfidenceFormula ==
    [][\A r \in Runs :
         Extracts(r) =>
           LET found == Extracted(r)
           IN  \A k \in 1..Len(found) :
                 /\ found[k].mentions >= 1
                 /\ found[k].mentions < 5 => found[k].confidence = found[k].mentions
                 /\ found[k].mentions >= 5 => found[k].confidence = 5]_vars

\* a call has returned a topic with more than five hits at confidence 1.0 and
\* a topic with fewer than five hits
C19_Witness ==
    \E r \in Runs :
        /\ run[r].pc = "link"
        /\ \E k \in 1..Len(run[r].topics_found) :
             /\ run[r].topics_found[k].mentions > 5
             /\ run[r].topics_found[k].confidence = 5
        /\ \E k \in 1..Len(run[r].topics_found) :
             /\ run[r].topics_found[k].mentions \in 1..4
             /\ run[r].topics_found[k].confidence = run[r].topics_found[k].mentions

\* the places of text where keyword stands
Places(keyword, text) ==
    { p \in 1..(Len(text) - Len(keyword) + 1) :
        SubSeq(text, p, p + Len(keyword) - 1) = keyword }

\* the number of occurrences of keyword in text as a complete token: no word
\* character before it and none after it
Occurrences(keyword, text) ==
    Cardinality({ p \in Places(keyword, text) :
                    /\ ~WordAt(text, p - 1)
                    /\ ~WordAt(text, p + Len(keyword)) })

\* the sum of the occurrences of the keywords in text
RECURSIVE Mentions(_, _)
Mentions(keywords, text) ==
    IF keywords = <<>> THEN 0
    ELSE Occurrences(Head(keywords), text) + Mentions(Tail(keywords), text)

\* C20: the match count of a returned topic is the sum over its keywords of
\* the occurrences of the keyword as a complete token in the lower-cased
\* text; a topic is returned only if this sum is at least 1, and a topic with
\* a sum of at least 1 is missing only from a list cut at five.
C20_MatchCount ==
    [][\A r \in Runs :
         Extracts(r) =>
           LET found == Extracted(r)
               lowered == to_lowercase(run[r].item.text)
           IN  \A c \in 1..Len(topics) :
                 LET sum == Mentions(topics[c].keywords, lowered)
                 IN  /\ \A k \in 1..Len(found) :
                          found[k].topic_id = topics[c].id
                          => found[k].mentions = sum /\ sum >= 1
                     /\ (sum >= 1 /\ ~Returned(found, topics[c].id))
                        => Len(found) = TopK]_vars

\* a call has returned a topic counted over two of its keywords, for a text
\* with an upper-case occurrence and with an occurrence of a keyword inside a
\* larger word
C20_Witness ==
    \E r \in Runs :
        LET s == run[r]
            lowered == to_lowercase(s.item.text)
        IN  /\ s.pc = "link"
            /\ lowered # s.item.text
            /\ \E c \in 1..Len(topics) :
                 /\ Returned(s.topics_found, topics[c].id)
                 /\ \E a, b \in 1..Len(topics[c].keywords) :
                      /\ a # b
                      /\ Occurrences(topics[c].keywords[a], lowered) >= 1
                      /\ Occurrences(topics[c].keywords[b], lowered) >= 1
                 /\ \E a \in 1..Len(topics[c].keywords) :
                      Cardinality(Places(topics[c].keywords[a], lowered))
                          > Occurrences(topics[c].keywords[a], lowered)


\* C21: a call of extract_topics whose catalog read fails returns an error:
\* the item is not counted and nothing is linked; the call returns Ok with
\* no topics only when the catalog was read and no keyword of any topic
\* occurs in the text.
C21_CatalogErrorSurfaces ==
    [][\A r \in Runs :
         (run[r].pc = "extract" /\ run'[r] # run[r]) =>
           LET lowered == to_lowercase(run[r].item.text)
               ok_empty == /\ run'[r].pc # "link"
                           /\ run'[r].total_posts = run[r].total_posts + 1
           IN  /\ (~database \/ faults' # faults)
                  => /\ run'[r].pc # "link"
                     /\ run'[r].total_posts = run[r].total_posts
                     /\ run'[r].total_topics = run[r].total_topics
                     /\ content_topics' = content_topics
               /\ ok_empty
                  => /\ database
                     /\ faults' = faults
                     /\ \A c \in 1..Len(topics) :
                          Mentions(topics[c].keywords, lowered) = 0]_vars

\* the catalog read for an item whose text mentions no topic has failed (no
\* other store operation follows the insert of such an item): the item is
\* stored and not counted, where Ok with no topics would have counted it
C21_Witness ==
    \E r \in Runs :
        /\ run[r].pc = "sleep"
        /\ run[r].total_posts = 0
        /\ faults < MaxFaults
        /\ \E x \in content :
             /\ run[r].my_content = {x.id}
             /\ x.text_content # <<>>
             /\ \A c \in 1..Len(topics) :
                  TopicConfidence(topics[c], x.text_content) = 0


\* the result of collect after the last target
Totals(s) == Ok([posts_collected |-> s.total_posts, topics_extracted |-> s.total_topics])

\* C22: no outcome of a fetch ends the collector: after the fetch of a
\* target (and, for YouTube, of the details of its chunks) the collector
\* ingests the items it got, then goes on to the fetch of the next target
\* while one is left, and returns Ok after the last one; it returns Err
\* only when the Reddit token request fails, before the first target.
C22_FetchFailureContained ==
    [][\A r \in Runs :
         LET s == run[r]
             t == run'[r]
         IN  /\ (s.pc \in {"fetch", "details"} /\ t # s)
                => /\ t.total_posts = s.total_posts
                   /\ t.total_topics = s.total_topics
                   /\ t.batch # <<>> => t.pc = "exists" /\ t.targets = s.targets
                   /\ t.batch = <<>>
                      => \/ t.pc \in {"sleep", "details"} /\ t.targets = s.targets
                         \/ /\ t.targets = s.targets - 1
                            /\ t.pc = IF t.targets > 0 THEN "fetch" ELSE "collected"
                   /\ t.pc = "collected" => t.collected = Totals(s)
             /\ (s.pc = "sleep" /\ t # s)
                => /\ t.targets = s.targets - 1
                   /\ t.pc = IF t.targets > 0 THEN "fetch" ELSE "collected"
                   /\ t.pc = "collected" => t.collected = Totals(s)
             /\ (t.pc = "collected" /\ s.pc # "collected" /\ ~t.collected.ok)
                => s.pc = "token"]_vars

\* a YouTube search has failed for the first of two queries (no item was
\* handed out, and an empty result would have skipped the pause), and the
\* collector is at the search for the second query
C22_Witness ==
    \E r \in Runs :
        /\ run[r].platform = "youtube"
        /\ run[r].pc = "fetch"
        /\ run[r].targets = 1
        /\ now = 1
        /\ supply = MaxSupply
        /\ \A q \in Runs \ {r} : run[q].pc = "idle"


\* the positions of a task inside process_post / process_tweet / process_video
ItemPcs == {"exists", "creator", "creator_update", "creator_insert",
            "content_insert", "extract", "link", "cooccur"}

\* the store operation of this step of task r fails: no connection, an I/O
\* error, or a UNIQUE constraint of the INSERT
StoreFails(r) ==
    LET s == run[r]
    IN  \/ ~database
        \/ faults' # faults
        \/ s.pc = "creator_insert" /\ CreatorConflict(NewCreator(s, next_uuid + 1))
        \/ /\ s.pc = "content_insert"
           /\ ContentConflict([platform |-> s.platform, platform_id |-> s.item.id])

\* C23: no step of the ingestion of an item ends the collector or skips a
\* target: the step either stays in the item or ends it and goes on to the
\* next item of the batch (after the last one, to the next chunk or to the
\* pause before the next target); an item whose store operation fails ends
\* there and leaves both counters as they were.
C23_ItemFailureContained ==
    [][\A r \in Runs :
         LET s == run[r]
             t == run'[r]
         IN  (s.pc \in ItemPcs /\ t # s)
             => /\ t.targets = s.targets
                /\ t.chunks = s.chunks
                /\ t.collected = s.collected
                /\ \/ /\ t.batch = s.batch
                      /\ t.pc \in ItemPcs \ {"exists"}
                      /\ t.total_posts = s.total_posts
                      /\ t.total_topics = s.total_topics
                   \/ /\ t.batch = Tail(s.batch)
                      /\ t.pc = IF t.batch # <<>> THEN "exists"
                                ELSE IF t.chunks # <<>> THEN "details"
                                ELSE "sleep"
                /\ StoreFails(r)
                   => /\ t.batch = Tail(s.batch)
                      /\ t.total_posts = s.total_posts
                      /\ t.total_topics = s.total_topics]_vars

\* the only task has got both items; the first one has failed on a store
\* error without being counted, and the second one has passed the duplicate
\* check
C23_Witness ==
    \E r \in Runs :
        /\ run[r].pc = "creator"
        /\ Len(run[r].batch) = 1
        /\ run[r].total_posts = 0
        /\ supply = 0
        /\ faults < MaxFaults
        /\ \A q \in Runs \ {r} : run[q].pc = "idle"


\* C24: in every collector, the step that brings a task to the fetch of the
\* next target is the pause at the end of the loop body, whatever the fetch
\* of the target before it returned.
C24_ThrottleBetweenTargets ==
    [][\A r \in Runs :
         (run'[r].pc = "fetch" /\ run'[r].targets < run[r].targets)
         => run[r].pc = "sleep"]_vars


\* C25: with no database connection, a run that was handed items (each of
\* them fails on its first store operation) returns an error to its caller,
\* and last_error is set when run_collection returns.
C25_StoreUnavailableSurfaces ==
    \A r \in Runs :
        (/\ ~database
         /\ run[r].pc = "returned"
         /\ supply < MaxSupply
         /\ \A q \in Runs \ {r} : run[q].pc = "idle")
        => /\ ~run[r].result.v.ok
           /\ run[r].platform = "reddit" => state.last_error.some


KeywordsOf(id) == topics[CHOOSE c \in 1..Len(topics) : topics[c].id = id].keywords

\* the content rows of the item task r is ingesting
ItemRows(table, s) ==
    {c \in table : c.platform = s.platform /\ c.platform_id = s.item.id}

\* the topic links of the content row task r inserted for its item
ItemLinks(table, s) == {x \in table : x.content_id = s.content_id}

\* C27: when the ingestion of a new item returns Ok with one extracted
\* topic, the item has exactly one content row, that row has exactly one
\* content_topics row, with confidence min(0.2 * hits, 1.0), and the
\* ingestion has written no co-occurrence; when it returns Ok with no topic,
\* the item has one content row, no content_topics row, and the ingestion
\* has written no co-occurrence.
C27_SingleTopicFrame ==
    [][\A r \in Runs :
         LET s == run[r]
             t == run'[r]
             hits == Mentions(KeywordsOf(s.topics_found[1].topic_id),
                              to_lowercase(s.item.text))
         IN  /\ (/\ s.pc = "link"
                 /\ Len(s.topics_found) = 1
                 /\ t.total_posts = s.total_posts + 1)
                => /\ Cardinality(ItemRows(content', s)) = 1
                   /\ \A c \in ItemRows(content', s) : c.id = s.content_id
                   /\ ItemLinks(content_topics', s)
                        = {[content_id |-> s.content_id,
                            topic_id |-> s.topics_found[1].topic_id,
                            confidence |-> IF hits >= 5 THEN 5 ELSE hits]}
                   /\ topic_cooccurrences' = topic_cooccurrences
                   /\ s.touched = <<>>
                   /\ t.total_topics = s.total_topics + 1
             /\ (/\ s.pc = "extract"
                 /\ t.pc # "link"
                 /\ t.total_posts = s.total_posts + 1)
                => /\ Cardinality(ItemRows(content', s)) = 1
                   /\ \A c \in ItemRows(content', s) : c.id = s.content_id
                   /\ ItemLinks(content_topics', s) = {}
                   /\ topic_cooccurrences' = topic_cooccurrences
                   /\ s.touched = <<>>
                   /\ t.total_topics = s.total_topics]_vars

\* a run has ingested "Budget, budget!" (one topic, two hits): its content
\* row has one link of confidence 0.4, and there is no co-occurrence row
C27_Witness ==
    \E r \in Runs, c \in content :
        /\ run[r].pc = "sleep"
        /\ run[r].total_posts = 1
        /\ run[r].total_topics = 1
        /\ run[r].my_content = {c.id}
        /\ c.text_content = TextOne
        /\ \E x \in content_topics :
             /\ x.confidence = 2
             /\ {y \in content_topics : y.content_id = c.id} = {x}
        /\ topic_cooccurrences = {}


\* C28: no step of any collector changes or deletes a content row: every
\* row of the table is in the table after the step, with all its fields.
C28_ContentWriteOnce ==
    [][content \subseteq content']_vars

\* an item with a content row has come again (with any of its payloads) and
\* has been skipped as a duplicate: the run has counted more items than it
\* has inserted
C28_Witness ==
    \E r \in Runs :
        /\ run[r].pc \in {"sleep", "collected", "returned"}
        /\ run[r].total_posts > Cardinality(run[r].my_content)
        /\ \E c \in content, it \in Payloads :
             it.id = c.platform_id /\ it.text # c.text_content


\* C29: in every state each content row has at most five content_topics
\* rows, at most one per (content id, topic id), and every stored confidence
\* is one of 0.2, 0.4, 0.6, 0.8, 1.0 (in fifths: 1 to 5), so in (0, 1].
C29_LinksBounded ==
    /\ \A c \in content :
         Cardinality({x \in content_topics : x.content_id = c.id}) <= 5
    /\ \A x, y \in content_topics :
         (x.content_id = y.content_id /\ x.topic_id = y.topic_id) => x = y
    /\ \A x \in content_topics : x.confidence \in 1..5

\* a content row whose text mentions more than five topics has five links,
\* one of them with confidence 1.0 and one with less
C29_Witness ==
    \E c \in content :
        /\ Cardinality({k \in 1..Len(topics) :
                          TopicConfidence(topics[k], c.text_content) > 0}) > 5
        /\ Cardinality({x \in content_topics : x.content_id = c.id}) = 5
        /\ \E x, y \in content_topics :
             /\ x.content_id = c.id /\ x.confidence = 5
             /\ y.content_id = c.id /\ y.confidence < 5


\* the place of the catalog row a in the ranking of the rows that match
\* text: one more than the number of matching rows with a higher confidence,
\* or with the same confidence and earlier in the catalog
RankOf(a, text) ==
    1 + Cardinality({ b \in 1..Len(topics) :
          LET ca == TopicConfidence(topics[a], text)
              cb == TopicConfidence(topics[b], text)
          IN  cb > 0 /\ (cb > ca \/ (cb = ca /\ b < a)) })

\* C30: the list extract_topics returns is a function of the text and of the
\* catalog in the order it was read: it holds, at place k, the matching
\* topic with k - 1 matching topics before it in the order "higher
\* confidence first, equal confidences in catalog order", for k up to 5, and
\* nothing else; so two calls with the same text and catalog return the
\* same list, and of tied topics the earlier ones in the catalog are kept.
C30_Deterministic ==
    [][\A r \in Runs :
         Extracts(r) =>
           LET found == Extracted(r)
               text == run[r].item.text
               matching == { a \in 1..Len(topics) :
                               TopicConfidence(topics[a], text) > 0 }
           IN  /\ Len(found) = Min(Cardinality(matching), 5)
               /\ \A a \in matching :
                    RankOf(a, text) <= 5
                    => /\ found[RankOf(a, text)].topic_id = topics[a].id
                       /\ found[RankOf(a, text)].topic_name = topics[a].name
                       /\ found[RankOf(a, text)].confidence
                            = TopicConfidence(topics[a], text)]_vars

\* a call has returned five topics, two of them with equal confidence, and
\* has left out a topic with the confidence of the last returned one
C30_Witness ==
    \E r \in Runs :
        LET found == run[r].topics_found
        IN  /\ run[r].pc = "link"
            /\ Len(found) = 5
            /\ \E k \in 1..4 : found[k].confidence = found[k + 1].confidence
            /\ \E a \in 1..Len(topics) :
                 /\ ~Returned(found, topics[a].id)
                 /\ TopicConfidence(topics[a], run[r].item.text) = found[5].confidence


\* C31: when an ingestion comes to the INSERT of its item's author while a
\* concurrent ingestion of another item of the same platform has stored that
\* author in the meantime, the store stays with one creator row for the
\* author and the ingestion goes on to insert its content row with that
\* creator.
C31_CreatorResolutionAtomic ==
    [][\A r, q \in Runs :
         LET s == run[r]
             o == run[q]
         IN  (/\ q # r
              /\ s.pc = "creator_insert"
              /\ run'[r] # s
              /\ database /\ faults' = faults
              /\ o.pc \in {"content_insert", "extract", "link", "cooccur"}
              /\ o.platform = s.platform
              /\ o.item.author = s.item.author
              /\ o.item.id # s.item.id
              /\ \E c \in creators : c.id = o.creator_id /\ c.platform = s.platform
                                     /\ c.platform_id = s.item.author)
             => /\ Cardinality({c \in creators' : c.platform = s.platform
                                  /\ c.platform_id = s.item.author}) = 1
                /\ run'[r].pc = "content_insert"
                /\ run'[r].creator_id = o.creator_id]_vars


\* C32: an ingestion whose INSERT INTO content meets a stored row of the
\* same (platform, platform_id) ends with an error in that step: the item
\* is not counted, the step writes no row, and the ingestion has written and
\* writes no content_topics row and no co-occurrence for the item, so the
\* links and pairs of the item are those of the ingestion that stored it;
\* as long as no store operation has hit an I/O error, every pair is counted
\* exactly once per content row linked to both of its topics.
C32_LosingInsertFailsWhole ==
    /\ [][\A r \in Runs :
         LET s == run[r]
             t == run'[r]
         IN  (/\ s.pc = "content_insert"
              /\ t # s
              /\ database /\ faults' = faults
              /\ ContentConflict([platform |-> s.platform, platform_id |-> s.item.id]))
             => /\ t.pc \in {"exists", "sleep", "details"}
                /\ t.batch = Tail(s.batch)
                /\ t.total_posts = s.total_posts
                /\ t.total_topics = s.total_topics
                /\ t.my_content = s.my_content
                /\ t.upserts = s.upserts
                /\ s.touched = <<>>
                /\ content' = content
                /\ content_topics' = content_topics
                /\ topic_cooccurrences' = topic_cooccurrences
                /\ \A x \in content_topics : \E c \in content : c.id = x.content_id]_vars
    /\ [](faults = MaxFaults => C13_EdgeWeight)

\* two X runs have got one tweet each and no store operation has hit an I/O
\* error; one run has stored and linked its tweet, the other one has stored
\* a creator of its own and then lost its tweet uncounted: its content
\* insert met the row of the first
C32_Witness ==
    \E r, q \in Runs :
        /\ r # q
        /\ database /\ faults = MaxFaults /\ supply = 0
        /\ run[r].platform = "x" /\ run[q].platform = "x"
        /\ run[r].pc \in {"sleep", "collected", "returned"}
        /\ run[q].pc \in {"sleep", "collected", "returned"}
        /\ run[r].total_posts = 0
        /\ run[q].total_posts = 1
        /\ Cardinality(creators) = 2
        /\ Cardinality(content) = 1
        /\ content_topics # {}


(***************************************************************************)
(* The per-query loop of youtube::collect on long search results.          *)
(***************************************************************************)
\* one YouTube run has passed its entry point and stands before its first
\* search; the platform can hand out MaxFound video ids
ChunkInit ==
    /\ state = [is_running |-> FALSE, last_run_at |-> None, last_error |-> None]
    /\ database = TRUE
    /\ topics = Catalog
    /\ creators = {}
    /\ content = {}
    /\ content_topics = {}
    /\ topic_cooccurrences = {}
    /\ run = [r \in Runs |->
                IF r = 1
                THEN LoopHead([IdleRun EXCEPT !.platform = "youtube",
                                              !.credentials = TRUE,
                                              !.targets = MaxTargets])
                ELSE IdleRun]
    /\ now = 0
    /\ next_uuid = 0
    /\ supply = MaxFound
    /\ faults = MaxFaults
    /\ last_done = None

\* youtube::collect and process_video
ChunkNext ==
    \E r \in Runs :
        \/ search_videos(r)
        \/ get_video_details(r)
        \/ dedup_check(r)
        \/ creator_lookup(r)
        \/ creator_insert(r)
        \/ content_insert(r)
        \/ load_topics(r)
        \/ link_topic(r)
        \/ update_cooccurrences(r)
        \/ throttle(r)

ChunkSpec == ChunkInit /\ [][ChunkNext]_vars

\* the concatenation of a sequence of sequences
RECURSIVE Flatten(_)
Flatten(ss) == IF ss = <<>> THEN <<>> ELSE Head(ss) \o Flatten(Tail(ss))

\* C33: in a YouTube run, a search leaves the found video ids as chunks of 1
\* to ChunkSize ids whose concatenation is the search result; only a detail
\* fetch takes a chunk, it takes the first one, and the items ingested are
\* those of the chunk it took, in order; a failed detail fetch writes
\* nothing, counts nothing, and goes on with the next chunk of the query or,
\* after the last chunk, with the delay before the next query.
C33_DetailBatching ==
    [][\A r \in Runs :
         LET s == run[r]
             t == run'[r]
         IN  (s.platform = "youtube" /\ t # s) =>
               /\ s.pc = "fetch" =>
                    \E video_ids \in Found(supply) :
                       /\ Len(video_ids) = supply - supply'
                       /\ Flatten(t.chunks) = video_ids
                       /\ \A k \in 1..Len(t.chunks) :
                            Len(t.chunks[k]) \in 1..ChunkSize
                       /\ t.batch = <<>>
               /\ s.pc = "details" =>
                    /\ s.chunks # <<>> /\ s.batch = <<>>
                    /\ t.chunks = Tail(s.chunks)
                    /\ t.batch \in {Head(s.chunks), <<>>}
                    /\ t.batch = <<>> =>
                         /\ t.pc = (IF t.chunks # <<>> THEN "details" ELSE "sleep")
                         /\ t.targets = s.targets
                         /\ t.total_posts = s.total_posts
                         /\ t.total_topics = s.total_topics
                         /\ tables' = tables
               /\ s.pc \notin {"fetch", "details"} =>
                    /\ t.chunks = s.chunks
                    /\ \/ t.batch = s.batch
                       \/ s.batch # <<>> /\ t.batch = Tail(s.batch)
               /\ (t.item # s.item /\ t.item # NoItem) =>
                    /\ s.pc = "exists" /\ s.batch # <<>>
                    /\ t.item.id = Head(s.batch)
               /\ s.pc = "sleep" =>
                    /\ s.chunks = <<>> /\ s.batch = <<>>
                    /\ t.targets = s.targets - 1
                    /\ t.pc = (IF t.targets > 0 THEN "fetch" ELSE "collected")]_vars

\* the first search of a YouTube run found ChunkSize + 1 videos; the detail
\* fetch of the first chunk failed, the one video of the second chunk was
\* ingested, and the run stands before its next search
C33_Witness ==
    \E r \in Runs :
        /\ run[r].platform = "youtube"
        /\ run[r].pc = "fetch"
        /\ run[r].targets = MaxTargets - 1
        /\ supply = MaxFound - (ChunkSize + 1)
        /\ run[r].total_posts = 1
        /\ Cardinality(content) = 1
        /\ run[r].my_content # {}


(***************************************************************************)
(* Application start: init_database before the commands are served.        *)
(***************************************************************************)
\* the topics rows the database file can hold before a start: none, the
\* default topics, or the rows that a start which failed while seeding left
StoredCatalogs == {SubSeq(Catalog, 1, k) : k \in 0..Len(Catalog)}

\* the creators rows the database file can hold before a start: none, or the
\* row of an X author that an earlier session stored
StoredCreators ==
    { {},
      {[id |-> 1, platform |-> "x", platform_id |-> "a1", username |-> "a1",
        display_name |-> Some("n2"), follower_count |-> Some(9)]} }

\* the process has started and init_database has not run yet
SeedInit ==
    /\ state = [is_running |-> FALSE, last_run_at |-> None, last_error |-> None]
    /\ database = FALSE
    /\ topics \in StoredCatalogs
    /\ creators \in StoredCreators
    /\ content = {}
    /\ content_topics = {}
    /\ topic_cooccurrences = {}
    /\ run = [r \in Runs |-> IdleRun]
    /\ now = 0
    /\ next_uuid = Cardinality(creators)
    /\ supply = 1
    /\ faults = MaxFaults
    /\ last_done = None

\* seed_default_topics without the count: the default topics are inserted
\* at every start
init_database_reseeding ==
    /\ ~database
    /\ run = [r \in Runs |-> IdleRun]
    /\ \E ok \in BOOLEAN, k \in 0..Len(Catalog) :
         /\ ok <=> k = Len(Catalog)
         /\ topics' = topics \o SubSeq(Catalog, 1, k)
         /\ database' = ok
    /\ UNCHANGED <<state, creators, content, content_topics, topic_cooccurrences,
                   run, env, last_done>>

\* init_database in setup: open the file, create_tables, seed_default_topics
\* (the default topics are inserted one by one if the table has no row),
\* then DATABASE holds the connection; an error on the way leaves the rows
\* inserted so far and DATABASE empty
init_database ==
    /\ ~database
    /\ run = [r \in Runs |-> IdleRun]
    /\ \E ok \in BOOLEAN, k \in 0..Len(Catalog) :
         /\ ok <=> k = Len(Catalog)
         /\ topics' = (IF Len(topics) = 0 THEN SubSeq(Catalog, 1, k) ELSE topics)
         /\ database' = ok
    /\ UNCHANGED <<state, creators, content, content_topics, topic_cooccurrences,
                   run, env, last_done>>

SeedNext == init_database \/ Next

SeedSpec == SeedInit /\ [][SeedNext]_vars

\* C34: a step of a task (collection run, ingestion, extraction) leaves the
\* topics table as it is; the table changes only in init_database, only when
\* it has no row, and only by gaining rows of the default topics.
C34_CatalogReadOnly ==
    [][/\ run' # run => topics' = topics
       /\ topics' # topics =>
            /\ ~database
            /\ run = [r \in Runs |-> IdleRun] /\ run' = run
            /\ Len(topics) = 0
            /\ \E k \in 1..Len(Catalog) : topics' = SubSeq(Catalog, 1, k)
            /\ UNCHANGED <<creators, content, content_topics, topic_cooccurrences>>]_vars

\* a start found one topics row in the file and did not seed; an item has
\* been ingested and linked against that catalog, and the run has returned
C34_Witness ==
    /\ database
    /\ Len(topics) = 1
    /\ content_topics # {}
    /\ \E r \in Runs : run[r].pc = "returned" /\ run[r].my_content # {}


\* C35: when the ingestion of an item ends with an error (the item leaves
\* the batch uncounted), the content table holds no row that this ingestion
\* inserted for the item.
C35_AllOrNothing ==
    [][\A r \in Runs :
         LET s == run[r]
             t == run'[r]
         IN  (/\ s.pc \in ItemPcs
              /\ s.batch # <<>> /\ t.batch = Tail(s.batch)
              /\ t.total_posts = s.total_posts)
             => ~\E c \in content' :
                   /\ c.id = s.content_id
                   /\ c.platform = s.platform
                   /\ c.platform_id = s.item.id]_vars


\* C36: every content row has a creator_id that is the id of a creators row
\* of the same platform; every content_topics row refers to a content row
\* and to a topics row; both ids of every topic_cooccurrences row are ids of
\* topics rows.
C36_ReferentialIntegrity ==
    /\ \A c \in content :
         /\ c.creator_id # 0
         /\ \E k \in creators : k.id = c.creator_id /\ k.platform = c.platform
    /\ \A x \in content_topics :
         /\ \E c \in content : c.id = x.content_id
         /\ x.topic_id \in TopicIds
    /\ \A x \in topic_cooccurrences :
         /\ x.topic_a_id \in TopicIds
         /\ x.topic_b_id \in TopicIds

\* two platforms have stored an item of an author of the same native id:
\* two creators, two content rows, topic links and a counted pair
C36_Witness ==
    /\ \E c, d \in content :
         /\ c.platform # d.platform
         /\ \E k, l \in creators :
              /\ k.id = c.creator_id /\ l.id = d.creator_id
              /\ k.id # l.id /\ k.platform_id = l.platform_id
    /\ content_topics # {}
    /\ topic_cooccurrences # {}


\* C37: the topic ids of an extract_topics result are pairwise distinct and
\* every entry has at least one mention; no topic_cooccurrences row pairs a
\* topic with itself.
C37_NoSelfPair ==
    /\ \A r \in Runs :
         LET found == run[r].topics_found
         IN  /\ \A a, b \in 1..Len(found) :
                  a # b => found[a].topic_id # found[b].topic_id
             /\ \A a \in 1..Len(found) : found[a].mentions >= 1
    /\ \A x \in topic_cooccurrences : x.topic_a_id # x.topic_b_id

\* an extraction returned three or more topics, one of them matched more
\* than once, and update_cooccurrences has written two pairs so far
C37_Witness ==
    \E r \in Runs :
        LET found == run[r].topics_found
        IN  /\ run[r].pc = "cooccur"
            /\ Len(found) >= 3
            /\ \E a \in 1..Len(found) : found[a].mentions >= 2
            /\ Cardinality(topic_cooccurrences) >= 2


(***************************************************************************)
(* The status command beside the collection runs.                          *)
(***************************************************************************)
\* the command get_collection_status: lock COLLECTION_STATE, copy the three
\* fields, unlock, return.  The task's platform field names the command.
get_collection_status_command(r) ==
    /\ Invocable(r)
    /\ Set(r, Return([run[r] EXCEPT !.platform = "status"],
                     Ok(get_collection_status)))
    /\ UNCHANGED <<state, database, tables, env, last_done>>

StatusNext == \E r \in Runs : Step(r) \/ get_collection_status_command(r)

StatusSpec == Init /\ [][StatusNext]_vars

\* the task has set is_running in run_collection's guard and has not yet
\* reset it
Holding(r) == run[r].platform = "reddit" /\ Active(r)

\* C38: COLLECTION_STATE starts as (false, none, none); whenever is_running
\* is true, exactly one task is between the step that set it and the step
\* that resets it; a get_collection_status step returns the three fields as
\* they are in the state it is taken in and changes neither COLLECTION_STATE
\* nor the store.
C38_RunState ==
    /\ state = [is_running |-> FALSE, last_run_at |-> None, last_error |-> None]
    /\ [](state.is_running => Cardinality({r \in Runs : Holding(r)}) = 1)
    /\ [][\A r \in Runs :
            (run[r].pc = "idle" /\ run'[r].platform = "status")
            => /\ run'[r].pc = "returned"
               /\ run'[r].result = Some(Ok([is_running |-> state.is_running,
                                            last_run_at |-> state.last_run_at,
                                            last_error |-> state.last_error]))
               /\ UNCHANGED <<state, database, tables>>]_vars

\* a Reddit run is between its guard and its release, and a
\* get_collection_status issued meanwhile has returned is_running = true
C38_Witness ==
    \E r, q \in Runs :
        /\ r # q
        /\ state.is_running
        /\ Holding(r)
        /\ run[q].platform = "status" /\ run[q].pc = "returned"
        /\ run[q].result.v.ok
        /\ run[q].result.v.v.is_running


(***************************************************************************)
(* Reddit runs against a catalog in which one post matches more than TopK  *)
(* topics.                                                                 *)
(***************************************************************************)
\* WideCatalog and a topic for "budget": "btc ai AI budget" matches six rows
CountCatalog ==
    WideCatalog \o <<[id |-> 8, name |-> "Personal Finance", keywords |-> <<KwBudget>>]>>

CountInit ==
    /\ state = [is_running |-> FALSE, last_run_at |-> None, last_error |-> None]
    /\ database = TRUE
    /\ topics = CountCatalog
    /\ creators = {}
    /\ content = {}
    /\ content_topics = {}
    /\ topic_cooccurrences = {}
    /\ run = [r \in Runs |-> IdleRun]
    /\ now = 0
    /\ next_uuid = 0
    /\ supply = MaxSupply
    /\ faults = MaxFaults
    /\ last_done = None

CountSpec == CountInit /\ [][RedditNext]_vars

\* C39: in every state the posts counter of a run is at most the number of
\* items the run has taken off the posts it fetched, and its topics counter
\* is at most TopK times the number of content rows the run has inserted;
\* the same bounds hold for the CollectionResult the run returns.
C39_CounterBounds ==
    \A r \in Runs :
        LET s == run[r]
        IN  /\ s.total_posts <= s.fetched - Len(s.batch)
            /\ s.total_topics <= TopK * Cardinality(s.my_content)
            /\ (s.result.some /\ s.result.v.ok)
               => /\ s.result.v.v.posts_collected <= s.fetched
                  /\ s.result.v.v.topics_extracted <= TopK * Cardinality(s.my_content)

\* a run has returned with both bounds reached: it fetched two posts and
\* counted both, one of them a duplicate, and the one post it inserted
\* matched more than TopK topics and counted TopK
C39_Witness ==
    \E r \in Runs :
        /\ run[r].result.some /\ run[r].result.v.ok
        /\ run[r].fetched = 2
        /\ run[r].result.v.v.posts_collected = 2
        /\ Cardinality(run[r].my_content) = 1
        /\ run[r].result.v.v.topics_extracted = TopK
        /\ \E c \in content :
             Len(Scored(topics, to_lowercase(c.text_content))) > TopK

=============================================================================
